---- MODULE Spec2Model ----
(***************************************************************************)
(* The request-dispatch core of envoy: the Router (one route table per     *)
(* HTTP method plus an all-methods table), registration through            *)
(* Server::at / Route::method / Route::all, and resolution of a request    *)
(* (method, path) to a Selection by Router::route.                         *)
(*                                                                         *)
(* Strings (route patterns, request paths) are sequences of tokens: the    *)
(* token "/" and segment texts ("a", ":x", "*").  The route tables are     *)
(* routefinder routers; routefinder is an external crate, so pattern       *)
(* compilation, matching and the best-match order are modelled from the    *)
(* specification of the PathMatcher and from the repository's tests.       *)
(***************************************************************************)
EXTENDS Integers, Sequences, FiniteSets, Bags, TLC

\* Bounds of the model.
MaxRoutes == 2     \* registrations made while configuring a server
MaxSegs == 2       \* segments of a request path

VARIABLES
    router,           \* Server.router: [method_map, all_method_router]
    crashed,          \* a registration panicked (Router::add unwraps the result)
    request,          \* the request being dispatched
    selection,        \* the Selection Router::route returned for it last
    first_selection,  \* the Selection Router::route returned for it first
    in_flight,        \* the Server::respond calls that have not returned: each
                      \* holds a clone of Server.router and Server.middleware
    again,            \* the request was resolved again by a further
                      \* Server::respond call while the first was in flight
    echoed,           \* what the endpoint of the request read from its Context
    middleware,       \* Server.middleware: the server-global middleware
    config,           \* the statements the server was configured with
    build,            \* the crate the server is built from: "envoy" (src/src)
                      \* or "envoy_http" (src/envoy_http)
    context,          \* the Context of the request being dispatched
    calls,            \* the calls of the dispatch that have not returned,
                      \* the innermost last
    trace,            \* what the middleware and endpoints of the dispatch did
    response,         \* what the innermost call that returned has returned
    builders,         \* the Route builders alive: each borrows the one before it
    log,              \* the calls made on the server and its builders so far
    history,          \* the calls made on the Context of the request and what
                      \* they returned
    handles,          \* the Server handles alive besides those of the dispatches:
                      \* the ones the program holds and the listener's
    serving,          \* a listener was bound or a request dispatched
    seen,             \* the route table and middleware list the dispatch found
                      \* when it resolved its request
    parked,           \* the bag of the dispatches in flight that wait while another runs
    returned,         \* what the last call of Server::respond gave its caller
    failover,         \* the FailoverListener: [listeners, index]
    listen,           \* the calls of bind and accept made on it and what they
                      \* returned
    tcp               \* the accept loop of the TcpListener that accepts

\* The state of a dispatch beyond the selection of its endpoint.
chain_vars == <<middleware, config, build, context, calls, trace, response>>

\* The builders of the configuration and the record of what they were told.
builder_vars == <<builders, log>>

\* The handles of the server and the dispatches that run beside one another.
serve_vars == <<handles, serving, seen, parked>>

\* The state of the handlers, which routing alone leaves as it is.
\* The listener of the server.
listener_vars == <<failover, listen, tcp>>

handler_vars ==
    <<echoed, chain_vars, builder_vars, history, serve_vars, returned, listener_vars>>

vars == <<router, crashed, request, selection, first_selection, in_flight, again,
          handler_vars>>

----------------------------------------------------------------------------
(* Strings as token sequences *)

SLASH == "/"
STAR == "*"
Lit == {"a", "b"}
ParamTok == {":x", ":y"}

\* The capture name of a `:name` segment: the text after the colon.
ParamName(tok) == CASE tok = ":x" -> "x" [] tok = ":y" -> "y" [] OTHER -> ""

RECURSIVE TrimStart(_)
TrimStart(s) == IF s # <<>> /\ Head(s) = SLASH THEN TrimStart(Tail(s)) ELSE s

\* A variant of TrimEnd: the trailing slash is kept.
TrimEnd_keep(s) == s

\* One trailing slash is ignored.
TrimEnd(s) ==
    IF s # <<>> /\ s[Len(s)] = SLASH THEN SubSeq(s, 1, Len(s) - 1) ELSE s

\* Split a trimmed, non-empty string on "/"; two adjacent slashes enclose an
\* empty segment "".
RECURSIVE Split(_)
Split(s) ==
    IF s = <<>> THEN <<"">>
    ELSE IF Head(s) = SLASH THEN <<"">> \o Split(Tail(s))
    ELSE IF Len(s) = 1 THEN <<Head(s)>>
    ELSE <<Head(s)>> \o Split(SubSeq(s, 3, Len(s)))

Segments(s) ==
    LET t == TrimEnd(TrimStart(s)) IN IF t = <<>> THEN <<>> ELSE Split(t)

RECURSIVE Join(_)
Join(segs) ==
    IF segs = <<>> THEN <<>>
    ELSE IF Len(segs) = 1 THEN <<Head(segs)>>
    ELSE <<Head(segs), SLASH>> \o Join(Tail(segs))

----------------------------------------------------------------------------
(* PathMatcher: compiled patterns, matching, precedence *)

Segment(tok) ==
    IF tok = STAR THEN [kind |-> "Wildcard", text |-> ""]
    ELSE IF tok \in ParamTok THEN [kind |-> "Param", text |-> ParamName(tok)]
    ELSE [kind |-> "Exact", text |-> tok]

\* compile(pattern): the segments of the pattern; it fails when a wildcard
\* is followed by further segments.
Compile(pattern) ==
    LET toks == Segments(pattern)
        segs == [i \in 1..Len(toks) |-> Segment(toks[i])]
    IN  [ok |-> \A i \in 1..Len(segs) :
                    segs[i].kind = "Wildcard" => i = Len(segs),
         spec |-> segs]

NoWildcard == [some |-> FALSE, rest |-> <<>>]
EmptyCaptures == [params |-> <<>>, wildcard |-> NoWildcard]
NoMatch == [ok |-> FALSE, captures |-> EmptyCaptures]

\* A variant of Captures: a capture also takes a missing segment, bound as "".
RECURSIVE Captures_lenient(_, _)
Captures_lenient(spec, segs) ==
    IF spec = <<>>
    THEN IF segs = <<>> THEN [ok |-> TRUE, captures |-> EmptyCaptures] ELSE NoMatch
    ELSE LET s == Head(spec) IN
         CASE s.kind = "Wildcard" ->
                [ok |-> TRUE,
                 captures |-> [params |-> <<>>,
                               wildcard |-> [some |-> TRUE, rest |-> Join(segs)]]]
           [] s.kind = "Param" ->
                LET seg == IF segs = <<>> THEN "" ELSE Head(segs)
                    r == Captures_lenient(Tail(spec),
                                          IF segs = <<>> THEN <<>> ELSE Tail(segs))
                IN  IF r.ok
                    THEN [r EXCEPT !.captures.params =
                                       <<[name |-> s.text, value |-> seg]>> \o @]
                    ELSE NoMatch
           [] OTHER ->
                IF segs # <<>> /\ Head(segs) = s.text
                THEN Captures_lenient(Tail(spec), Tail(segs))
                ELSE NoMatch

\* match(compiled, path segments): literal segments compare exactly, a capture
\* takes exactly one non-empty segment, a wildcard takes all remaining segments
\* (also none) and binds them joined by "/".
RECURSIVE Captures(_, _)
Captures(spec, segs) ==
    IF spec = <<>>
    THEN IF segs = <<>> THEN [ok |-> TRUE, captures |-> EmptyCaptures] ELSE NoMatch
    ELSE LET s == Head(spec) IN
         CASE s.kind = "Wildcard" ->
                [ok |-> TRUE,
                 captures |-> [params |-> <<>>,
                               wildcard |-> [some |-> TRUE, rest |-> Join(segs)]]]
           [] s.kind = "Param" ->
                IF segs = <<>> \/ Head(segs) = "" THEN NoMatch
                ELSE LET r == Captures(Tail(spec), Tail(segs)) IN
                     IF r.ok
                     THEN [r EXCEPT !.captures.params =
                                        <<[name |-> s.text, value |-> Head(segs)]>> \o @]
                     ELSE NoMatch
           [] OTHER ->
                IF segs # <<>> /\ Head(segs) = s.text
                THEN Captures(Tail(spec), Tail(segs))
                ELSE NoMatch

\* A variant of Rank: a capture ranks above a literal.
Rank_capture_first(seg) ==
    CASE seg.kind = "Exact" -> 2 [] seg.kind = "Param" -> 3 [] OTHER -> 1

Rank(seg) == CASE seg.kind = "Exact" -> 3 [] seg.kind = "Param" -> 2 [] OTHER -> 1

\* Precedence of two compiled patterns: 1 when s1 wins, -1 when s2 wins, 0 when
\* they have the same shape.  The first position whose segment kinds differ
\* decides, exact > capture > wildcard; a pattern that ends first wins.
RECURSIVE Precedence(_, _)
Precedence(s1, s2) ==
    IF s1 = <<>> /\ s2 = <<>> THEN 0
    ELSE IF s1 = <<>> THEN 1
    ELSE IF s2 = <<>> THEN -1
    ELSE IF Rank(Head(s1)) > Rank(Head(s2)) THEN 1
    ELSE IF Rank(Head(s1)) < Rank(Head(s2)) THEN -1
    ELSE Precedence(Tail(s1), Tail(s2))

\* The shape of a pattern: its segments with the capture names left out.
Shape(spec) ==
    [i \in 1..Len(spec) |->
        IF spec[i].kind = "Param" THEN [kind |-> "Param", text |-> ""] ELSE spec[i]]

----------------------------------------------------------------------------
(* Route tables *)

NoEndpoint == [kind |-> "none", method |-> "", path |-> <<>>]
NoBest == [found |-> FALSE, spec |-> <<>>, endpoint |-> NoEndpoint,
           captures |-> EmptyCaptures]

\* The entries of a table that match the path.
Matches(table, path) ==
    LET segs == Segments(path) IN {e \in table : Captures(e.spec, segs).ok}

\* MethodRouter::best_match
BestMatch(table, path) ==
    LET ms == Matches(table, path) IN
    IF ms = {} THEN NoBest
    ELSE LET e == CHOOSE x \in ms :
                      \A o \in ms \ {x} : Precedence(x.spec, o.spec) >= 0
         IN  [found |-> TRUE, spec |-> e.spec, endpoint |-> e.endpoint,
              captures |-> Captures(e.spec, Segments(path)).captures]

\* MethodRouter::add: the pattern is compiled and entered; it is refused when
\* it does not compile or when the table holds a pattern of the same shape.
TableAdd(table, pattern, ep) ==
    LET c == Compile(pattern) IN
    IF c.ok /\ \A e \in table : Shape(e.spec) # Shape(c.spec)
    THEN [ok |-> TRUE, table |-> table \cup {[spec |-> c.spec, endpoint |-> ep]}]
    ELSE [ok |-> FALSE, table |-> table]

----------------------------------------------------------------------------
(* Router *)

Methods == {"GET", "HEAD", "POST"}

\* Router::new
NewRouter == [method_map |-> << >>, all_method_router |-> {}]

\* A variant of Router::add: the method's table is made anew by every call, so
\* that it holds the last route only.
add_fresh_table(r, path, method, ep) ==
    LET mm == r.method_map
        res == TableAdd({}, path, ep)
    IN  [ok |-> res.ok,
         router |-> IF res.ok
                    THEN [r EXCEPT !.method_map =
                              [m \in (DOMAIN mm) \cup {method} |->
                                  IF m = method THEN res.table ELSE mm[m]]]
                    ELSE r]

\* A variant of Router::add: the pattern is entered into the method's table
\* whether the table refuses it or not, and nothing panics.
add_unchecked(r, path, method, ep) ==
    LET mm == r.method_map
        t == IF method \in DOMAIN mm THEN mm[method] ELSE {}
        entered == t \cup {[spec |-> Compile(path).spec, endpoint |-> ep]}
    IN  [ok |-> TRUE,
         router |-> [r EXCEPT !.method_map =
                        [m \in (DOMAIN mm) \cup {method} |->
                            IF m = method THEN entered ELSE mm[m]]]]

\* Router::add: the method's table is created on first use; a refused pattern
\* is a panic (unwrap), reported here as ok = FALSE.
add(r, path, method, ep) ==
    LET mm == r.method_map
        t == IF method \in DOMAIN mm THEN mm[method] ELSE {}
        res == TableAdd(t, path, ep)
    IN  [ok |-> res.ok,
         router |-> IF res.ok
                    THEN [r EXCEPT !.method_map =
                              [m \in (DOMAIN mm) \cup {method} |->
                                  IF m = method THEN res.table ELSE mm[m]]]
                    ELSE r]

\* Router::add_all
add_all(r, path, ep) ==
    LET res == TableAdd(r.all_method_router, path, ep) IN
    [ok |-> res.ok,
     router |-> IF res.ok THEN [r EXCEPT !.all_method_router = res.table] ELSE r]

not_found_endpoint == [kind |-> "not_found_endpoint", method |-> "", path |-> <<>>]

method_not_allowed == [kind |-> "method_not_allowed", method |-> "", path |-> <<>>]

\* The status of the response a synthetic endpoint produces.
Status(ep) ==
    CASE ep.kind = "not_found_endpoint" -> 404
      [] ep.kind = "method_not_allowed" -> 405
      [] OTHER -> 200

\* self.method_map.get(&method).and_then(|r| r.best_match(path))
MethodMatch(r, path, method) ==
    IF method \in DOMAIN r.method_map
    THEN BestMatch(r.method_map[method], path)
    ELSE NoBest

\* Variants of Router::route with one of its steps changed.

\* The all-methods table is consulted before the method's own table.
RECURSIVE route_all_first(_, _, _)
route_all_first(r, path, method) ==
    LET m == MethodMatch(r, path, method)
        a == BestMatch(r.all_method_router, path)
    IN  IF a.found THEN [endpoint |-> a.endpoint, params |-> a.captures]
        ELSE IF m.found THEN [endpoint |-> m.endpoint, params |-> m.captures]
        ELSE IF method = "HEAD" THEN route_all_first(r, path, "GET")
        ELSE IF \E k \in (DOMAIN r.method_map) \ {method} :
                    BestMatch(r.method_map[k], path).found
        THEN [endpoint |-> method_not_allowed, params |-> EmptyCaptures]
        ELSE [endpoint |-> not_found_endpoint, params |-> EmptyCaptures]

\* HEAD is treated like every other method: no retry as GET.
route_no_head_retry(r, path, method) ==
    LET m == MethodMatch(r, path, method)
        a == BestMatch(r.all_method_router, path)
    IN  IF m.found THEN [endpoint |-> m.endpoint, params |-> m.captures]
        ELSE IF a.found THEN [endpoint |-> a.endpoint, params |-> a.captures]
        ELSE IF \E k \in (DOMAIN r.method_map) \ {method} :
                    BestMatch(r.method_map[k], path).found
        THEN [endpoint |-> method_not_allowed, params |-> EmptyCaptures]
        ELSE [endpoint |-> not_found_endpoint, params |-> EmptyCaptures]

\* The tables of the other methods are not consulted: every miss is a 404.
RECURSIVE route_no_405(_, _, _)
route_no_405(r, path, method) ==
    LET m == MethodMatch(r, path, method)
        a == BestMatch(r.all_method_router, path)
    IN  IF m.found THEN [endpoint |-> m.endpoint, params |-> m.captures]
        ELSE IF a.found THEN [endpoint |-> a.endpoint, params |-> a.captures]
        ELSE IF method = "HEAD" THEN route_no_405(r, path, "GET")
        ELSE [endpoint |-> not_found_endpoint, params |-> EmptyCaptures]

\* A HEAD request that no HEAD route matches is a 404 at once.
route_head_404(r, path, method) ==
    LET m == MethodMatch(r, path, method)
        a == BestMatch(r.all_method_router, path)
    IN  IF m.found THEN [endpoint |-> m.endpoint, params |-> m.captures]
        ELSE IF a.found THEN [endpoint |-> a.endpoint, params |-> a.captures]
        ELSE IF method = "HEAD"
        THEN [endpoint |-> not_found_endpoint, params |-> EmptyCaptures]
        ELSE IF \E k \in (DOMAIN r.method_map) \ {method} :
                    BestMatch(r.method_map[k], path).found
        THEN [endpoint |-> method_not_allowed, params |-> EmptyCaptures]
        ELSE [endpoint |-> not_found_endpoint, params |-> EmptyCaptures]

\* The other methods' tables are consulted before the all-methods table.
RECURSIVE route_405_first(_, _, _)
route_405_first(r, path, method) ==
    LET m == MethodMatch(r, path, method)
        a == BestMatch(r.all_method_router, path)
    IN  IF m.found THEN [endpoint |-> m.endpoint, params |-> m.captures]
        ELSE IF method # "HEAD"
                /\ \E k \in (DOMAIN r.method_map) \ {method} :
                       BestMatch(r.method_map[k], path).found
        THEN [endpoint |-> method_not_allowed, params |-> EmptyCaptures]
        ELSE IF a.found THEN [endpoint |-> a.endpoint, params |-> a.captures]
        ELSE IF method = "HEAD" THEN route_405_first(r, path, "GET")
        ELSE [endpoint |-> not_found_endpoint, params |-> EmptyCaptures]

\* Router::route
RECURSIVE route(_, _, _)
route(r, path, method) ==
    LET m == MethodMatch(r, path, method)
        a == BestMatch(r.all_method_router, path)
    IN  IF m.found THEN [endpoint |-> m.endpoint, params |-> m.captures]
        ELSE IF a.found THEN [endpoint |-> a.endpoint, params |-> a.captures]
        ELSE IF method = "HEAD" THEN route(r, path, "GET")
        ELSE IF \E k \in (DOMAIN r.method_map) \ {method} :
                    BestMatch(r.method_map[k], path).found
        THEN [endpoint |-> method_not_allowed, params |-> EmptyCaptures]
        ELSE [endpoint |-> not_found_endpoint, params |-> EmptyCaptures]

----------------------------------------------------------------------------
(* Inputs *)

\* The route patterns registered.
Patterns ==
    { <<"/", "a">>,
      <<"/", "a", "/", ":x">>,
      <<"/", "a", "/", ":x", "/">>,
      <<"/", "a", "/", "*">>,
      <<"/", ":x", "/", ":y">>,
      <<"/", ":x", "/", "b">> }

RECURSIVE SegSeqs(_)
SegSeqs(n) ==
    IF n = 0 THEN {<<>>}
    ELSE LET shorter == SegSeqs(n - 1) IN
         shorter \cup {Append(s, l) : s \in {t \in shorter : Len(t) = n - 1}, l \in Lit}

\* The path of a request URI: "/" and the segments joined by "/", with or
\* without a trailing slash.
PathOf(segs, trailing) ==
    <<SLASH>> \o Join(segs) \o (IF trailing THEN <<SLASH>> ELSE <<>>)

Paths ==
    {PathOf(s, FALSE) : s \in SegSeqs(MaxSegs)}
        \cup {PathOf(s, TRUE) : s \in SegSeqs(MaxSegs) \ {<<>>}}

\* Each registration passes an endpoint of its own.
EndpointOf(method, path) == [kind |-> "endpoint", method |-> method, path |-> path]

Registered(r) ==
    Cardinality(r.all_method_router)
        + Cardinality(UNION {{<<m, e>> : e \in r.method_map[m]} :
                                m \in DOMAIN r.method_map})

NoRequest == [method |-> "", path |-> <<>>]
NoSelection == [endpoint |-> NoEndpoint, params |-> EmptyCaptures]

\* No endpoint has read its Context.
NoEcho == [called |-> FALSE, wildcard |-> NoWildcard, status |-> 0]

\* No Context: no request is being dispatched.
NoContext == [req |-> NoRequest, ctx |-> <<>>, params |-> <<>>]

\* No call of the dispatch has returned.
NoResponse ==
    [outcome |-> "none", status |-> 0, body |-> "", error |-> {}, mw |-> 0,
     ep |-> NoEndpoint, headers |-> <<>>]

\* Server::respond has returned nothing to its caller.
NoReturn == [result |-> "none", status |-> 0, body |-> "", headers |-> <<>>]

\* Error::new(status, error): an error with its status and its message; a
\* result holds one error or none.
Error_new(status, message) == {[status |-> status, message |-> message]}

\* The result Err(error) of the middleware `mw` or of the endpoint `ep`.
Err(error, mw, ep) ==
    LET err == CHOOSE e \in error : TRUE IN
    [outcome |-> "error", status |-> err.status, body |-> err.message, error |-> error,
     mw |-> mw, ep |-> ep, headers |-> <<>>]

\* The body a handler answers with; the router's 404 and 405 have none.
Body(ep) == IF ep.kind = "endpoint" THEN "ok" ELSE ""

\* The server was configured route by route.
NoConfig ==
    [shape |-> "none", build |-> "envoy_http", overlap |-> <<>>, global |-> <<>>,
     route |-> <<>>, inner_global |-> <<>>, inner_route |-> <<>>]

\* No route table and middleware list seen by a dispatch.
NoTable == [router |-> <<>>, middleware |-> <<>>]

\* The program holds the one handle of its server; nothing was served, no call
\* was made on a Context and no dispatch waits.
\* A listener as ToListener makes it of an address: TcpListener::from_addrs.
TcpListener_from_addrs(addrs) == [addrs |-> {addrs}, listener |-> {}, server |-> {}]

\* FailoverListener::new
FailoverListener_new == [listeners |-> <<>>, index |-> {}]

\* Neither bind nor accept has been called.
NoListen == [bind |-> "none", accept |-> "none", tried |-> <<>>, serves |-> {}]

\* No TcpListener is in its accept loop.
NoTcp == [status |-> "idle", addr |-> 0, last |-> "none", handled |-> 0]

ServeIdle ==
    /\ history = <<>>
    /\ returned = NoReturn
    /\ failover = FailoverListener_new
    /\ listen = NoListen
    /\ tcp = NoTcp
    /\ handles = [user |-> 1, listener |-> FALSE]
    /\ serving = FALSE
    /\ seen = NoTable
    /\ parked = EmptyBag

\* A server without global middleware that dispatches nothing beyond the
\* selection of the endpoint and has no builder alive.
ChainIdle ==
    /\ ServeIdle
    /\ middleware = <<>>
    /\ config = NoConfig
    /\ build = "envoy_http"
    /\ context = NoContext
    /\ calls = <<>>
    /\ trace = <<>>
    /\ response = NoResponse
    /\ builders = <<>>
    /\ log = <<>>

----------------------------------------------------------------------------
(* Actions *)

Init ==
    /\ router = NewRouter
    /\ crashed = FALSE
    /\ request = NoRequest
    /\ selection = NoSelection
    /\ first_selection = NoSelection
    /\ in_flight = 0
    /\ again = FALSE
    /\ echoed = NoEcho
    /\ ChainIdle

\* A panic ends the run: nothing is dispatched or registered after it.
Panic ==
    /\ crashed' = TRUE
    /\ request' = NoRequest
    /\ selection' = NoSelection
    /\ first_selection' = NoSelection
    /\ in_flight' = 0
    /\ again' = FALSE
    /\ UNCHANGED <<router, handler_vars>>

\* Server::at while a dispatch is in flight: Arc::get_mut(&mut self.router)
\* gives the router only while no clone of it is alive, and the expect panics.
AtWhileShared ==
    /\ ~crashed
    /\ in_flight > 0
    /\ Panic

\* Server::at while no clone is alive, followed by the Route's registration;
\* a refused pattern panics in Router::add.
Registration(res) ==
    /\ ~crashed
    /\ in_flight = 0
    /\ Registered(router) < MaxRoutes
    /\ IF res.ok
       THEN /\ router' = res.router
            /\ UNCHANGED <<crashed, request, selection, first_selection, in_flight, again,
                         handler_vars>>
       ELSE Panic

\* app.at(path).method(method, ep)
Register(path, method) ==
    Registration(add(router, path, method, EndpointOf(method, path)))

\* app.at(path).all(ep)
RegisterAll(path) ==
    Registration(add_all(router, path, EndpointOf("ALL", path)))

\* Server::respond, up to the selection of the endpoint: the server is cloned
\* and the clone's router resolves the request.
Respond(method, path) ==
    /\ ~crashed
    /\ in_flight = 0
    /\ LET sel == route(router, path, method) IN
           /\ request' = [method |-> method, path |-> path]
           /\ selection' = sel
           /\ first_selection' = sel
    /\ in_flight' = 1
    /\ again' = FALSE
    /\ UNCHANGED <<router, crashed, handler_vars>>

\* A variant of the further Server::respond: it resolves the path a
\* prefix-stripping endpoint of the first dispatch left in the request (the
\* wildcard remainder) instead of the path of its own request.
RespondAgain_stripped ==
    /\ ~crashed
    /\ in_flight > 0
    /\ selection' = route(router,
                          IF selection.params.wildcard.some
                          THEN <<SLASH>> \o selection.params.wildcard.rest
                          ELSE request.path,
                          request.method)
    /\ again' = TRUE
    /\ UNCHANGED <<router, crashed, request, first_selection, in_flight,
                   handler_vars>>

\* A further Server::respond for the same method and path, from its clone of
\* the server to its return, while the first call has not returned; it may
\* happen any number of times.
RespondAgain ==
    /\ ~crashed
    /\ in_flight > 0
    /\ selection' = route(router, request.path, request.method)
    /\ again' = TRUE
    /\ UNCHANGED <<router, crashed, request, first_selection, in_flight,
                   handler_vars>>

\* Server::respond returns and its clone of the router is dropped.
Returned ==
    /\ ~crashed
    /\ in_flight > 0
    /\ in_flight' = in_flight - 1
    /\ again' = FALSE
    /\ request' = NoRequest
    /\ selection' = NoSelection
    /\ first_selection' = NoSelection
    /\ UNCHANGED <<router, crashed, handler_vars>>

Next ==
    \/ \E p \in Patterns, m \in Methods : Register(p, m)
    \/ \E p \in Patterns : RegisterAll(p)
    \/ \E m \in Methods, p \in Paths : Respond(m, p)
    \/ RespondAgain
    \/ Returned
    \/ AtWhileShared

Spec == Init /\ [][Next]_vars

----------------------------------------------------------------------------
(* Properties of Router::route, stated of the request being dispatched *)

\* The table of a method; empty when nothing was registered for it.
TableOf(m) == IF m \in DOMAIN router.method_map THEN router.method_map[m] ELSE {}

ReqSegs == Segments(request.path)

\* The entries of a table that match the request in flight.
Hits(table) == LET segs == ReqSegs IN {e \in table : Captures(e.spec, segs).ok}

\* The entry of `table` the request selects: it matches, and it has precedence
\* over every other entry that matches.
Wins(e, table) ==
    LET hits == Hits(table) IN
    /\ e \in hits
    /\ \A o \in hits \ {e} : Precedence(e.spec, o.spec) = 1

Selects(e) ==
    /\ selection.endpoint = e.endpoint
    /\ selection.params = Captures(e.spec, ReqSegs).captures

Is404 == selection = [endpoint |-> not_found_endpoint, params |-> EmptyCaptures]
Is405 == selection = [endpoint |-> method_not_allowed, params |-> EmptyCaptures]

\* C1: when the request method's own table matches the path, the selection is
\* that table's best match (handler and captures), also when the all-methods
\* table matches too; an endpoint of the all-methods table is selected only
\* when the method's own table has no match.
C1_MethodTableBeforeAll ==
    in_flight > 0 =>
        /\ \A e \in TableOf(request.method) :
               Wins(e, TableOf(request.method)) => Selects(e)
        /\ (\E e \in router.all_method_router : selection.endpoint = e.endpoint)
               => /\ Hits(TableOf(request.method)) = {}
                  /\ \A e \in router.all_method_router :
                         Wins(e, router.all_method_router) => Selects(e)

\* Both the method's table and the all-methods table match, and the method's
\* entry is selected.
C1_Witness ==
    /\ in_flight > 0
    /\ Hits(TableOf(request.method)) # {}
    /\ Hits(router.all_method_router) # {}
    /\ selection.endpoint.method = request.method

\* C2: a HEAD request to a path that neither the HEAD table nor the
\* all-methods table matches and that the GET table matches selects the GET
\* table's best match, with its captures.
C2_HeadReusesGet ==
    (/\ in_flight > 0
     /\ request.method = "HEAD"
     /\ Hits(TableOf("HEAD")) = {}
     /\ Hits(router.all_method_router) = {}
     /\ Hits(TableOf("GET")) # {})
        => /\ selection.endpoint.method = "GET"
           /\ \E e \in TableOf("GET") : Wins(e, TableOf("GET")) /\ Selects(e)

C2_Witness ==
    /\ in_flight > 0
    /\ request.method = "HEAD"
    /\ Hits(TableOf("HEAD")) = {}
    /\ "HEAD" \in DOMAIN router.method_map
    /\ Hits(router.all_method_router) = {}
    /\ selection.endpoint.method = "GET"
    /\ selection.params.params # <<>>

\* The request misses its own method's table and the all-methods table, and
\* the table of another method matches it.
WrongVerb ==
    /\ in_flight > 0
    /\ Hits(TableOf(request.method)) = {}
    /\ Hits(router.all_method_router) = {}
    /\ \E k \in Methods \ {request.method} : Hits(TableOf(k)) # {}

\* C3 as stated: every such request selects the synthetic 405 endpoint.
C3_Original == WrongVerb => Is405 /\ Status(selection.endpoint) = 405

\* C3, amended: such a request selects the synthetic 405 endpoint with empty
\* captures, unless it is a HEAD request that the GET table matches (which is
\* served by the GET handler).
C3_WrongVerbIs405 ==
    (WrongVerb /\ ~(request.method = "HEAD" /\ Hits(TableOf("GET")) # {}))
        => Is405 /\ Status(selection.endpoint) = 405

\* A HEAD request that only a POST route matches gets the 405.
C3_Witness ==
    /\ WrongVerb
    /\ request.method = "HEAD"
    /\ Hits(TableOf("POST")) # {}
    /\ Is405

AnyTableHits ==
    \/ Hits(router.all_method_router) # {}
    \/ \E k \in Methods : Hits(TableOf(k)) # {}

\* C4: a request that no table matches selects the synthetic 404 endpoint with
\* empty captures, whatever its method, and the 404 endpoint is selected for no
\* request that some table matches.
C4_NotFoundIffNoTableMatches ==
    in_flight > 0 =>
        /\ ~AnyTableHits => Is404 /\ Status(selection.endpoint) = 404
        /\ selection.endpoint = not_found_endpoint => ~AnyTableHits

\* A HEAD request misses a router that holds routes for two methods.
C4_Witness ==
    /\ in_flight > 0
    /\ request.method = "HEAD"
    /\ Cardinality(DOMAIN router.method_map) = 2
    /\ ~AnyTableHits
    /\ Is404

\* C5: the synthetic 405 endpoint is never selected for a request that the
\* all-methods table matches.
C5_No405WhenAllMatches ==
    (in_flight > 0 /\ Hits(router.all_method_router) # {})
        => selection.endpoint # method_not_allowed

\* The all-methods table and another method's table match, the request's own
\* table does not, and the all-methods entry is selected.
C5_Witness ==
    /\ in_flight > 0
    /\ Hits(router.all_method_router) # {}
    /\ Hits(TableOf(request.method)) = {}
    /\ \E k \in Methods \ {request.method} : Hits(TableOf(k)) # {}
    /\ selection.endpoint.method = "ALL"

----------------------------------------------------------------------------
(* Properties of the route tables *)

AllEntries ==
    router.all_method_router \cup UNION {TableOf(k) : k \in Methods}

\* e1 has a literal at a position where e2 has a capture or a wildcard.
LiteralAt(e1, e2) ==
    \E i \in 1..Len(e1.spec) :
        /\ i <= Len(e2.spec)
        /\ e1.spec[i].kind = "Exact"
        /\ e2.spec[i].kind \in {"Param", "Wildcard"}

\* C7 as stated: of two patterns of the request method's table that match the
\* path, the one with a capture or wildcard where the other has a literal is
\* not the one selected.
C7_Original ==
    in_flight > 0 =>
        \A e1, e2 \in Hits(TableOf(request.method)) :
            LiteralAt(e1, e2) => selection.endpoint # e2.endpoint

Pat_xy == <<"/", ":x", "/", ":y">>
Pat_aStar == <<"/", "a", "/", "*">>
Pat_ax == <<"/", "a", "/", ":x">>
Pat_axSlash == <<"/", "a", "/", ":x", "/">>

\* The router of the test: `/:one/:two` and `/posts/*` registered for GET.
AmbiguousRouter ==
    /\ DOMAIN router.method_map = {"GET"}
    /\ {e.endpoint : e \in router.method_map["GET"]}
           = {EndpointOf("GET", Pat_xy), EndpointOf("GET", Pat_aStar)}

\* C7, amended: of two patterns of the request method's table that match the
\* path, the one with a capture or wildcard where the other has a literal is
\* not selected, unless it has a literal of its own where the other has a
\* capture or wildcard; with `/:x/:y` and `/a/*` registered, `/a/b` selects
\* the `/a/*` handler.
C7_LiteralBeatsCapture ==
    in_flight > 0 =>
        /\ \A e1, e2 \in Hits(TableOf(request.method)) :
               (LiteralAt(e1, e2) /\ ~LiteralAt(e2, e1))
                   => selection.endpoint # e2.endpoint
        /\ (AmbiguousRouter /\ request = [method |-> "GET", path |-> <<"/", "a", "/", "b">>])
               => selection.endpoint = EndpointOf("GET", Pat_aStar)

C7_Witness ==
    /\ in_flight > 0
    /\ AmbiguousRouter
    /\ request = [method |-> "GET", path |-> <<"/", "a", "/", "b">>]
    /\ selection.endpoint = EndpointOf("GET", Pat_aStar)
    /\ selection.params.wildcard = [some |-> TRUE, rest |-> <<"b">>]

\* The registrations a caller can make, in a list: a pattern entered into a
\* method's table or into the all-methods table, with the endpoint of that
\* registration.
RegList ==
    LET all == [table : Methods \cup {"ALL"}, path : Patterns]
        RECURSIVE List(_)
        List(S) == IF S = {} THEN <<>>
                   ELSE LET g == CHOOSE x \in S : TRUE IN <<g>> \o List(S \ {g})
    IN  List(all)

Reg(r, g) ==
    IF g.table = "ALL"
    THEN add_all(r, g.path, EndpointOf("ALL", g.path))
    ELSE add(r, g.path, g.table, EndpointOf(g.table, g.path))

\* The registration after a first one; a panic of the first ends the run.
RegNext(first, h) == IF first.ok THEN Reg(first.router, h) ELSE first

SameRouting(r1, r2) ==
    \A m \in Methods, p \in Paths : route(r1, p, m) = route(r2, p, m)

\* C8: two registrations made in either order on any router that registrations
\* have built leave routers that route every method and path alike (any
\* reordering of a sequence of registrations is a chain of such swaps); a
\* registration that panics in one order panics in the other.
C8_OrderIndependent ==
    (in_flight = 0 /\ ~crashed) =>
        LET one == [k \in DOMAIN RegList |-> Reg(router, RegList[k])] IN
        \A i, j \in DOMAIN RegList :
            i < j =>
                LET gh == RegNext(one[i], RegList[j])
                    hg == RegNext(one[j], RegList[i])
                IN  /\ gh.ok = hg.ok
                    /\ gh.ok => (gh.router = hg.router
                                    \/ SameRouting(gh.router, hg.router))

\* Two routes of one table match one path: the order of registration could
\* show in the selection.
C8_Witness ==
    /\ in_flight = 0
    /\ ~crashed
    /\ \E m \in Methods : \E p \in Paths :
           Cardinality(Matches(TableOf(m), p)) = 2

\* The request path with its trailing slash added or removed.
Toggle(path) ==
    IF Len(path) <= 1 THEN path
    ELSE IF path[Len(path)] = SLASH THEN SubSeq(path, 1, Len(path) - 1)
    ELSE Append(path, SLASH)

\* C9: a request path with and without a trailing slash resolves to the same
\* endpoint with the same captures, and a pattern registered with a trailing
\* slash matches a path, with the same captures, exactly when the pattern
\* without it does.
C9_TrailingSlashIgnored ==
    in_flight > 0 =>
        /\ route(router, Toggle(request.path), request.method) = selection
        /\ \A e \in AllEntries :
               LET pat == e.endpoint.path IN
               (Len(pat) > 1 /\ pat[Len(pat)] = SLASH) =>
                   LET bare == Compile(SubSeq(pat, 1, Len(pat) - 1))
                       segs == ReqSegs
                   IN  /\ bare.ok
                       /\ Captures(bare.spec, segs) = Captures(e.spec, segs)

\* A path with a trailing slash selects a pattern registered with a trailing
\* slash and binds its capture.
C9_Witness ==
    /\ in_flight > 0
    /\ request.path = <<"/", "a", "/", "b", "/">>
    /\ selection.endpoint = EndpointOf(request.method, Pat_axSlash)
    /\ selection.params.params = <<[name |-> "x", value |-> "b"]>>

ParamPositions(spec) == {i \in 1..Len(spec) : spec[i].kind = "Param"}

\* The router holds one route: the pattern registered for GET.
OnlyRoute(pat) ==
    /\ router.all_method_router = {}
    /\ DOMAIN router.method_map = {"GET"}
    /\ {e.endpoint : e \in router.method_map["GET"]} = {EndpointOf("GET", pat)}

\* C10: a pattern with a capture at position i matches no path that has fewer
\* than i segments; when it matches, the capture is bound to the i-th segment
\* as it is, and the selected endpoint gets one binding for each capture of
\* its pattern.  With only `/a/:x` (or `/a/:x/`) registered, `/a/` and `/a`
\* resolve to 404 and `/a/b` reaches the handler with x = b.
C10_CaptureTakesOneSegment ==
    in_flight > 0 =>
        /\ LET segs == ReqSegs IN
           \A e \in AllEntries :
               LET c == Captures(e.spec, segs) IN
               /\ \A i \in ParamPositions(e.spec) :
                      /\ Len(segs) < i => ~c.ok
                      /\ c.ok => /\ segs[i] # ""
                                 /\ \E k \in 1..Len(c.captures.params) :
                                        c.captures.params[k]
                                            = [name |-> e.spec[i].text, value |-> segs[i]]
               /\ (/\ Len(e.spec) = Len(segs)
                   /\ \A i \in 1..Len(e.spec) :
                          \/ e.spec[i].kind = "Param" /\ segs[i] # ""
                          \/ e.spec[i].kind = "Exact" /\ segs[i] = e.spec[i].text)
                      => c.ok
               /\ selection.endpoint = e.endpoint
                      => Len(selection.params.params)
                             = Cardinality(ParamPositions(e.spec))
        /\ \A pat \in {Pat_ax, Pat_axSlash} :
               (OnlyRoute(pat) /\ request.method = "GET") =>
                   /\ request.path \in {<<"/", "a", "/">>, <<"/", "a">>} => Is404
                   /\ request.path = <<"/", "a", "/", "b">> =>
                          /\ selection.endpoint = EndpointOf("GET", pat)
                          /\ selection.params.params = <<[name |-> "x", value |-> "b"]>>

\* `/a/` against `/a/:x`, the only route: the capture's segment is missing and
\* the request is a 404.
C10_Witness ==
    /\ in_flight > 0
    /\ OnlyRoute(Pat_ax)
    /\ request = [method |-> "GET", path |-> <<"/", "a", "/">>]
    /\ Is404

----------------------------------------------------------------------------
(* An endpoint that echoes the wildcard remainder of its route *)

MaxEchoSegs == 3   \* segments of a request path sent to the echo server

\* The routes of the echo servers: one server for each.
EchoPatterns ==
    { <<"/", "a", "/", "*">>,
      <<"/", "*">>,
      <<"/", "a", "/", ":x", "/", "*">>,
      <<"/", ":x", "/", "*">>,
      <<"/", "a", "/", "b", "/", "*">>,
      <<"/", "a">>,
      <<"/", "a", "/", ":x">> }

EchoPaths ==
    {PathOf(s, FALSE) : s \in SegSeqs(MaxEchoSegs)}
        \cup {PathOf(s, TRUE) : s \in SegSeqs(MaxEchoSegs) \ {<<>>}}

\* A variant of Context::new: the store and the captures of the Context of the
\* dispatch that runs are carried into the new one.
Context_new_shared(req, params) ==
    [req |-> req, ctx |-> context.ctx, params |-> context.params \o params]

\* Context::new: the request with the captures of the routing passes made and
\* an empty store of typed values (a function from the names of the types).
Context_new(req, params) == [req |-> req, ctx |-> <<>>, params |-> params]

\* A variant of Context::wildcard: an empty remainder counts as none.
RECURSIVE Context_wildcard_nonempty(_)
Context_wildcard_nonempty(params) ==
    IF params = <<>> THEN NoWildcard
    ELSE LET last == params[Len(params)] IN
         IF last.wildcard.some /\ last.wildcard.rest # <<>> THEN last.wildcard
         ELSE Context_wildcard_nonempty(SubSeq(params, 1, Len(params) - 1))

\* Context::wildcard: the remainder of the latest routing pass that has one.
RECURSIVE Context_wildcard(_)
Context_wildcard(params) ==
    IF params = <<>> THEN NoWildcard
    ELSE LET last == params[Len(params)] IN
         IF last.wildcard.some THEN last.wildcard
         ELSE Context_wildcard(SubSeq(params, 1, Len(params) - 1))

\* Option<T>: the set of the value, or the empty set for none.
None == {}
Some(v) == {v}

\* HashMap::get on the store.
Context_try_borrow(c, T) == IF T \in DOMAIN c.ctx THEN Some(c.ctx[T]) ELSE None

\* A variant of Context::try_take: the value is handed out and kept.
Context_try_take_kept(c, T) ==
    [context |-> c, result |-> Context_try_borrow(c, T)]

\* Context::try_take: HashMap::remove on the store; the Context without the
\* value and the value removed, if any.
Context_try_take(c, T) ==
    [context |-> [c EXCEPT !.ctx = [U \in DOMAIN c.ctx \ {T} |-> c.ctx[U]]],
     result |-> Context_try_borrow(c, T)]

\* A variant of Context::insert: a value that is stored stays, and the new one
\* is dropped.
Context_insert_keep_first(c, T, value) ==
    IF T \in DOMAIN c.ctx THEN [context |-> c, result |-> None]
    ELSE [context |-> [c EXCEPT !.ctx = [U \in DOMAIN c.ctx \cup {T} |->
                                            IF U = T THEN value ELSE c.ctx[U]]],
          result |-> None]

\* A variant of Context::insert: the store has one slot for all types.
Context_insert_one_slot(c, T, value) ==
    [context |-> [c EXCEPT !.ctx = [U \in {T} |-> value]],
     result |-> Context_try_borrow(c, T)]

\* Context::insert: HashMap::insert under the TypeId of the value; the Context
\* with the value and the value stored for the type before, if any.
Context_insert(c, T, value) ==
    [context |-> [c EXCEPT !.ctx = [U \in DOMAIN c.ctx \cup {T} |->
                                       IF U = T THEN value ELSE c.ctx[U]]],
     result |-> Context_try_borrow(c, T)]

\* Context::try_borrow_mut followed by an assignment through the reference
\* when there is one.
Context_try_borrow_mut(c, T, value) ==
    [context |-> IF T \in DOMAIN c.ctx THEN [c EXCEPT !.ctx[T] = value] ELSE c,
     result |-> Context_try_borrow(c, T)]

\* echo_wildcard: the remainder as the body, or 404 when the route has none.
echo_wildcard(ctx) ==
    LET w == Context_wildcard(ctx.params) IN
    [called |-> TRUE, wildcard |-> w, status |-> IF w.some THEN 200 ELSE 404]

\* app.at(pattern).get(echo_wildcard) on a new server.
InitEcho ==
    /\ \E p \in EchoPatterns :
           router = add(NewRouter, p, "GET", EndpointOf("GET", p)).router
    /\ crashed = FALSE
    /\ request = NoRequest
    /\ selection = NoSelection
    /\ first_selection = NoSelection
    /\ in_flight = 0
    /\ again = FALSE
    /\ echoed = NoEcho
    /\ ChainIdle

\* Server::respond for GET path: the route is resolved, the Context made of
\* the request and the captures, and the selected endpoint called.
RespondEcho(path) ==
    /\ in_flight = 0
    /\ LET req == [method |-> "GET", path |-> path]
           sel == route(router, path, "GET")
           ctx == Context_new(req, <<sel.params>>)
       IN  /\ request' = req
           /\ selection' = sel
           /\ first_selection' = sel
           /\ echoed' = IF sel.endpoint.kind = "endpoint"
                        THEN echo_wildcard(ctx)
                        ELSE [NoEcho EXCEPT !.status = Status(sel.endpoint)]
    /\ in_flight' = 1
    /\ UNCHANGED <<router, crashed, again, chain_vars, builder_vars, history, serve_vars,
                   returned, listener_vars>>

\* Server::respond returns and the Context is dropped.
ReturnedEcho ==
    /\ in_flight > 0
    /\ in_flight' = in_flight - 1
    /\ request' = NoRequest
    /\ selection' = NoSelection
    /\ first_selection' = NoSelection
    /\ echoed' = NoEcho
    /\ UNCHANGED <<router, crashed, again, chain_vars, builder_vars, history, serve_vars,
                   returned, listener_vars>>

NextEcho ==
    \/ \E p \in EchoPaths : RespondEcho(p)
    \/ ReturnedEcho

SpecEcho == InitEcho /\ [][NextEcho]_vars

\* The route of the echo server.
EchoRoute == CHOOSE e \in router.method_map["GET"] : TRUE

\* The segments before the wildcard match the path's first segments.
PrefixMatches(spec, segs) ==
    \A i \in 1..(Len(spec) - 1) :
        /\ i <= Len(segs)
        /\ spec[i].kind = "Exact" => segs[i] = spec[i].text
        /\ spec[i].kind = "Param" => segs[i] # ""

EndsInWildcard(spec) == spec # <<>> /\ spec[Len(spec)].kind = "Wildcard"

EchoRouteIs(pattern) == EchoRoute.endpoint = EndpointOf("GET", pattern)

\* C11: a route that ends in a wildcard matches a path exactly when the
\* segments before the wildcard match the path's first segments, whatever
\* follows them, also nothing; the endpoint then reads the segments that follow
\* joined by "/" as the remainder.  With `/a/*`: `/a/b` gives `b`, `/a/b/a`
\* gives `b/a`, and `/a` and `/a/` succeed with the empty remainder.
C11_WildcardRemainder ==
    (in_flight > 0 /\ EndsInWildcard(EchoRoute.spec)) =>
        LET spec == EchoRoute.spec
            segs == ReqSegs
        IN  /\ echoed.called <=> PrefixMatches(spec, segs)
            /\ ~echoed.called => echoed.status = 404
            /\ echoed.called =>
                   /\ echoed.status = 200
                   /\ echoed.wildcard =
                          [some |-> TRUE,
                           rest |-> Join(SubSeq(segs, Len(spec), Len(segs)))]
            /\ EchoRouteIs(<<"/", "a", "/", "*">>) =>
                   /\ request.path = <<"/", "a", "/", "b">>
                          => echoed.wildcard.rest = <<"b">>
                   /\ request.path = <<"/", "a", "/", "b", "/", "a">>
                          => echoed.wildcard.rest = <<"b", "/", "a">>
                   /\ request.path \in {<<"/", "a">>, <<"/", "a", "/">>}
                          => echoed = [called |-> TRUE, status |-> 200,
                                       wildcard |-> [some |-> TRUE, rest |-> <<>>]]

\* `/a/b/a` against `/a/*`: the endpoint read the remainder `b/a`.
C11_Witness ==
    /\ in_flight > 0
    /\ EchoRouteIs(<<"/", "a", "/", "*">>)
    /\ request.path = <<"/", "a", "/", "b", "/", "a">>
    /\ echoed.called
    /\ echoed.wildcard = [some |-> TRUE, rest |-> <<"b", "/", "a">>]

\* `/a` against `/a/*`: the endpoint read the empty remainder.
C11_WitnessEmpty ==
    /\ in_flight > 0
    /\ EchoRouteIs(<<"/", "a", "/", "*">>)
    /\ request.path = <<"/", "a">>
    /\ echoed.called
    /\ echoed.wildcard = [some |-> TRUE, rest |-> <<>>]

----------------------------------------------------------------------------
(* Middleware, route builders and nested servers *)

MaxMw == 3         \* middleware of a configuration

\* The middleware of the tests: TestMiddleware passes the request on and marks
\* the response with its header; auth_middleware answers 401 itself unless the
\* request carries the X-Auth key.
Mw(i) == [id |-> i, kind |-> IF i = 1 THEN "auth" ELSE "header"]

\* A middleware of the application that puts the Uri and the Method of the
\* request into the store of the Context and passes the request on.
StoreMw == [id |-> MaxMw + 1, kind |-> "store"]

\* A middleware of the application that returns an error and does not pass the
\* request on.
FailMw == [id |-> MaxMw + 2, kind |-> "fail"]

\* An instance of LogMiddleware.
LogMw(i) == [id |-> MaxMw + 2 + i, kind |-> "log"]

\* The type of the mark LogMiddleware sets on a request.
LogMiddlewareHasBeenRun == "LogMiddlewareHasBeenRun"

\* A variant of LogMiddleware::log: the request is not marked.
LogMiddleware_log_unmarked(c) ==
    IF Context_try_borrow(c, LogMiddlewareHasBeenRun) # None
    THEN [logs |-> FALSE, context |-> c]
    ELSE [logs |-> TRUE, context |-> c]

\* LogMiddleware::log up to its call of next.run: on a request that has the
\* mark it only passes the request on; otherwise it marks the request and logs
\* that the request was received.
LogMiddleware_log(c) ==
    IF Context_try_borrow(c, LogMiddlewareHasBeenRun) # None
    THEN [logs |-> FALSE, context |-> c]
    ELSE [logs |-> TRUE,
          context |-> Context_insert(c, LogMiddlewareHasBeenRun, TRUE).context]

\* Whether the middleware calls next.run for the request.
CallsNext(m, req) ==
    m.kind \in {"header", "store", "log"} \/ (m.kind = "auth" /\ req.auth)

\* What the middleware does to the Context before it calls next.run.
Before(m, c) ==
    CASE m.kind = "store" ->
             Context_insert(Context_insert(c, "Uri", c.req.path).context,
                            "Method", c.req.method).context
      [] m.kind = "log" -> LogMiddleware_log(c).context
      [] OTHER -> c

\* The lines of the log.
Received == "<-- Request received"
Sent(status) ==
    IF status >= 500 THEN "Internal error --> Response sent"
    ELSE IF status >= 400 THEN "Client error --> Response sent"
    ELSE "--> Response sent"
Line(text, m) == [ev |-> text, mw |-> m.id, ep |-> NoEndpoint]

\* What the middleware logs before it calls next.run.
LoggedBefore(m, c) ==
    IF m.kind = "log" /\ LogMiddleware_log(c).logs THEN <<Line(Received, m)>> ELSE <<>>

\* The middleware waiting for next.run; an instance of LogMiddleware is in the
\* branch that logs or in the one that only passes the request on.
Awaiting(m, c) ==
    IF m.kind = "log"
    THEN [op |-> "await", m |-> m, logs |-> LogMiddleware_log(c).logs]
    ELSE [op |-> "await", m |-> m]

\* What the waiting middleware logs for the response next.run gave it.
LoggedAfter(call, res) ==
    IF call.m.kind = "log" /\ call.logs THEN <<Line(Sent(res.status), call.m)>> ELSE <<>>

MiddlewareEndpoint(ep, mw) ==
    [kind |-> "MiddlewareEndpoint", endpoint |-> ep, middleware |-> mw]

\* A variant of wrap_with_middleware: the list is baked in back to front.
wrap_with_middleware_reversed(ep, mw) ==
    IF mw = <<>> THEN ep
    ELSE MiddlewareEndpoint(ep, [i \in 1..Len(mw) |-> mw[Len(mw) + 1 - i]])

\* MiddlewareEndpoint::wrap_with_middleware: the endpoint itself when the list
\* is empty, else the endpoint with the list baked in.
wrap_with_middleware(ep, mw) ==
    IF mw = <<>> THEN ep ELSE MiddlewareEndpoint(ep, mw)

\* StripPrefixEndpoint::new
StripPrefixEndpoint_new(ep) == [kind |-> "StripPrefixEndpoint", endpoint |-> ep]

\* Server::new; a server is an endpoint as well.
Server_new == [kind |-> "Server", router |-> NewRouter, middleware |-> <<>>]

\* Server::with
Server_with(server, m) == [server EXCEPT !.middleware = Append(@, m)]

\* Route::new
Route_new(path) == [path |-> path, middleware |-> <<>>, prefix |-> FALSE]

\* A variant of Route::at: the child starts without middleware.
Route_at_fresh(self, path) ==
    [path |-> self.path \o path, middleware |-> <<>>, prefix |-> FALSE]

\* Route::at: the child's path is the parent's extended by `path`, with a "/"
\* put between them when neither has one there; the child holds a clone of the
\* parent's middleware.
Route_at(self, path) ==
    LET p0 == self.path
        p1 == IF ~(p0 # <<>> /\ p0[Len(p0)] = SLASH) /\ ~(path # <<>> /\ path[1] = SLASH)
              THEN Append(p0, SLASH) ELSE p0
        p2 == IF path # <<SLASH>> THEN p1 \o path ELSE p1
    IN  [path |-> p2, middleware |-> self.middleware, prefix |-> FALSE]

\* A variant of Route::with: the middleware is not kept.
Route_with_dropped(self, m) == self

\* Route::with
Route_with(self, m) == [self EXCEPT !.middleware = Append(@, m)]

\* A variant of Route::reset_middleware: the list is left as it is.
Route_reset_middleware_kept(self) == self

\* Route::reset_middleware
Route_reset_middleware(self) == [self EXCEPT !.middleware = <<>>]

\* Route::method on the router `r`: under a prefix the endpoint is wrapped to
\* strip it and registered at the wildcard below the path.
Route_method(r, self, method, ep) ==
    IF self.prefix
    THEN LET wildcard == Route_at(self, <<STAR>>) IN
         add(r, wildcard.path, method,
             wrap_with_middleware(StripPrefixEndpoint_new(ep), wildcard.middleware))
    ELSE add(r, self.path, method, wrap_with_middleware(ep, self.middleware))

\* Route::all on the router `r`.
Route_all(r, self, ep) ==
    IF self.prefix
    THEN LET wildcard == Route_at(self, <<STAR>>) IN
         add_all(r, wildcard.path,
                 wrap_with_middleware(StripPrefixEndpoint_new(ep), wildcard.middleware))
    ELSE add_all(r, self.path, wrap_with_middleware(ep, self.middleware))

\* Route::nest on the router `r`: the server is registered for all methods
\* with the path taken as a prefix.
Route_nest(r, self, service) == Route_all(r, [self EXCEPT !.prefix = TRUE], service)

----------------------------------------------------------------------------
(* The calls of a dispatch *)

\* A variant of Next::new: the router's own 404 and 405 endpoints are run
\* without the middleware.
Next_new_bare(endpoint, mw) ==
    [endpoint |-> endpoint,
     middleware |-> IF endpoint.kind \in {"not_found_endpoint", "method_not_allowed"}
                    THEN <<>> ELSE mw,
     current_index |-> 0]

\* Next::new
Next_new(endpoint, mw) == [endpoint |-> endpoint, middleware |-> mw, current_index |-> 0]

\* A variant of Next::run: the index is advanced by two, so that the chain
\* handed to a middleware leaves out that middleware's successor.
Next_run_skip(next) ==
    LET current_index == next.current_index
        self == [next EXCEPT !.current_index = @ + 2]
    IN  IF current_index < Len(next.middleware)
        THEN [op |-> "handle", m |-> next.middleware[current_index + 1], next |-> self]
        ELSE [op |-> "call", endpoint |-> next.endpoint]

\* Next::run: the call it makes, of the middleware at the index with the rest
\* of the chain, or of the endpoint when no middleware is left.
Next_run(next) ==
    LET current_index == next.current_index
        self == [next EXCEPT !.current_index = @ + 1]
    IN  IF current_index < Len(next.middleware)
        THEN [op |-> "handle", m |-> next.middleware[current_index + 1], next |-> self]
        ELSE [op |-> "call", endpoint |-> next.endpoint]

\* Next::run's match on what the middleware or the endpoint it called has
\* returned.  In envoy (src/src/middleware.rs) Next::run returns a Response:
\* Ok(response) gives the response and Err(err) gives err.into(), the response
\* made of the error, which keeps the error.  In envoy_http the callers of
\* Next::run take a Result from it, the one the middleware or endpoint returned.
Next_run_result(res) ==
    IF build = "envoy" /\ res.outcome = "error"
    THEN [res EXCEPT !.outcome = "response"]
    ELSE res

\* What Server::respond gives its caller for the result of the chain.  In envoy
\* an error sets the body of the response to its message and the status to its
\* status; in envoy_http an error gives a response of status 500 with the
\* message as its body.  A panic of the chain unwinds through Server::respond.
Server_respond(res) ==
    CASE res.outcome = "panic" ->
             [result |-> "panic", status |-> 0, body |-> "", headers |-> <<>>]
      [] res.outcome = "error" ->
             LET err == CHOOSE e \in res.error : TRUE IN
             IF build = "envoy"
             THEN [result |-> "Ok", status |-> err.status, body |-> err.message,
                   headers |-> res.headers]
             ELSE [result |-> "Ok", status |-> 500, body |-> err.message,
                   headers |-> <<>>]
      [] OTHER ->
             [result |-> "Ok", status |-> res.status, body |-> res.body,
              headers |-> res.headers]

\* What a middleware that does not call next.run returns: auth_middleware a
\* response of status 401, the failing middleware an error of status 403.
Answer(m) ==
    IF m.kind = "fail"
    THEN Next_run_result(Err(Error_new(403, "forbidden"), m.id, NoEndpoint))
    ELSE [outcome |-> "response", status |-> 401, body |-> "", error |-> {},
          mw |-> m.id, ep |-> NoEndpoint, headers |-> <<>>]

\* What the trace records: a middleware starting on the request, a middleware
\* getting the response of the rest of the chain, an endpoint handling the
\* request.
Pre(m) == [ev |-> "pre", mw |-> m.id, ep |-> NoEndpoint]
Post(m) == [ev |-> "post", mw |-> m.id, ep |-> NoEndpoint]
Called(ep) == [ev |-> "call", mw |-> 0, ep |-> ep]

Top == calls[Len(calls)]
Returning == SubSeq(calls, 1, Len(calls) - 1)

\* Uri::from_str of the http crate on a wildcard remainder: the empty string is
\* refused, a string that starts with "/" is a path, a single segment is taken
\* for an authority (its path is empty), and segments separated by "/" are
\* refused.
Uri_from_str(s) ==
    IF s = <<>> THEN [ok |-> FALSE, path |-> <<>>]
    ELSE IF Head(s) = SLASH THEN [ok |-> TRUE, path |-> s]
    ELSE IF Len(s) = 1 THEN [ok |-> TRUE, path |-> <<>>]
    ELSE [ok |-> FALSE, path |-> <<>>]

\* Url::set_path on an http URL: the path starts with "/".
set_path(s) == IF s # <<>> /\ Head(s) = SLASH THEN s ELSE <<SLASH>> \o s

\* What a dispatch leaves as it is.
dispatch_frame ==
    <<router, crashed, request, selection, first_selection, in_flight, again, echoed,
      middleware, config, build, builder_vars, history, serve_vars,
                   returned, listener_vars>>

\* Server::respond up to the first call of the chain: the route is resolved,
\* the Context made, and the chain of the global middleware and the selected
\* endpoint started.
Dispatch(method, path, auth) ==
    /\ ~crashed
    /\ in_flight = 0
    /\ LET sel == route(router, path, method)
           req == [method |-> method, path |-> path, auth |-> auth]
       IN  /\ request' = [method |-> method, path |-> path]
           /\ selection' = sel
           /\ first_selection' = sel
           /\ context' = Context_new(req, <<sel.params>>)
           /\ calls' = <<Next_run(Next_new(sel.endpoint, middleware))>>
    /\ trace' = <<>>
    /\ response' = NoResponse
    /\ in_flight' = 1
    /\ again' = FALSE
    /\ returned' = NoReturn
    /\ UNCHANGED <<router, crashed, echoed, middleware, config, build, builder_vars,
                   history, serve_vars, listener_vars>>

\* A variant of Handle: a middleware that answers itself still has the rest of
\* the chain run.
Handle_always_next ==
    /\ calls # <<>>
    /\ Top.op = "handle"
    /\ trace' = Append(trace, Pre(Top.m))
    /\ calls' = Returning \o <<[op |-> "await", m |-> Top.m], Next_run(Top.next)>>
    /\ context' = Before(Top.m, context)
    /\ UNCHANGED <<response, dispatch_frame>>

\* Middleware::handle up to its call of next.run, or to its return when it
\* answers the request itself.
Handle ==
    /\ calls # <<>>
    /\ Top.op = "handle"
    /\ trace' = Append(trace, Pre(Top.m)) \o LoggedBefore(Top.m, context)
    /\ IF CallsNext(Top.m, context.req)
       THEN /\ calls' = Returning \o <<Awaiting(Top.m, context), Next_run(Top.next)>>
            /\ context' = Before(Top.m, context)
            /\ UNCHANGED response
       ELSE /\ calls' = Returning
            /\ response' = Answer(Top.m)
            /\ UNCHANGED context
    /\ UNCHANGED dispatch_frame

\* Middleware::handle from the return of next.run to its own return:
\* TestMiddleware inserts its header, LogMiddleware logs the response.
HandleReturn ==
    /\ calls # <<>>
    /\ Top.op = "await"
    /\ trace' = Append(trace, Post(Top.m)) \o LoggedAfter(Top, response)
    /\ response' = IF Top.m.kind = "header" /\ response.outcome = "response"
                   THEN [response EXCEPT !.headers = Append(@, Top.m.id)]
                   ELSE response
    /\ calls' = Returning
    /\ UNCHANGED <<context, dispatch_frame>>

\* Endpoint::call of a handler, or of the router's 404 and 405 endpoints.
CallHandler ==
    /\ calls # <<>>
    /\ Top.op = "call"
    /\ Top.endpoint.kind \in {"endpoint", "not_found_endpoint", "method_not_allowed"}
    /\ trace' = Append(trace, Called(Top.endpoint))
    /\ response' = [outcome |-> "response", status |-> Status(Top.endpoint),
                    body |-> Body(Top.endpoint), error |-> {}, mw |-> 0,
                    ep |-> Top.endpoint, headers |-> <<>>]
    /\ calls' = Returning
    /\ UNCHANGED <<context, dispatch_frame>>

\* MiddlewareEndpoint::call: the chain of the baked middleware and the wrapped
\* endpoint is started.
CallMiddlewareEndpoint ==
    /\ calls # <<>>
    /\ Top.op = "call"
    /\ Top.endpoint.kind = "MiddlewareEndpoint"
    /\ calls' = Returning \o
                    <<Next_run(Next_new(Top.endpoint.endpoint, Top.endpoint.middleware))>>
    /\ UNCHANGED <<trace, response, context, dispatch_frame>>

\* StripPrefixEndpoint::call: the request's path becomes the remainder of the
\* latest wildcard capture and the wrapped endpoint is called.  In envoy the
\* remainder is set as the path of the request's URL; in envoy_http it is
\* parsed as a URI, and a refusal is returned as an error.
CallStripPrefix ==
    /\ calls # <<>>
    /\ Top.op = "call"
    /\ Top.endpoint.kind = "StripPrefixEndpoint"
    /\ LET rest == Context_wildcard(context.params).rest
           uri == IF build = "envoy" THEN [ok |-> TRUE, path |-> set_path(rest)]
                  ELSE Uri_from_str(rest)
       IN  IF uri.ok
           THEN /\ context' = [context EXCEPT !.req.path = uri.path]
                /\ calls' = Returning \o <<[op |-> "call", endpoint |-> Top.endpoint.endpoint]>>
                /\ UNCHANGED response
           ELSE /\ calls' = Returning
                /\ response' = Next_run_result(Err(Error_new(500, "invalid uri"), 0,
                                                       Top.endpoint))
                /\ UNCHANGED context
    /\ UNCHANGED <<trace, dispatch_frame>>

\* A variant of Endpoint::call of a Server: when the nested server has no
\* route for the request, a handler the outer server has for the path of the
\* request, under whatever method, is called instead of the nested server's
\* 404 or 405.
CallServer_fallback ==
    /\ calls # <<>>
    /\ Top.op = "call"
    /\ Top.endpoint.kind = "Server"
    /\ IF build = "envoy" \/ {"Uri", "Method"} \subseteq DOMAIN context.ctx
       THEN LET path == IF build = "envoy" THEN context.req.path ELSE context.ctx["Uri"]
                method == IF build = "envoy" THEN context.req.method
                          ELSE context.ctx["Method"]
                sel == route(Top.endpoint.router, path, method)
                outer == {e \in UNION {router.method_map[k] : k \in DOMAIN router.method_map} :
                             Captures(e.spec, Segments(request.path)).ok}
            IN
                IF sel.endpoint.kind \in {"not_found_endpoint", "method_not_allowed"}
                      /\ outer # {}
                THEN /\ calls' = Returning \o
                                     <<[op |-> "call",
                                        endpoint |-> (CHOOSE e \in outer : TRUE).endpoint]>>
                     /\ UNCHANGED <<context, response>>
                ELSE /\ context' = [context EXCEPT !.params = Append(@, sel.params)]
                     /\ calls' = Returning \o
                                     <<Next_run(Next_new(sel.endpoint,
                                                         Top.endpoint.middleware))>>
                     /\ UNCHANGED response
       ELSE /\ calls' = <<>>
            /\ response' = [outcome |-> "panic", status |-> 0, body |-> "", error |-> {},
                            mw |-> 0, ep |-> NoEndpoint, headers |-> <<>>]
            /\ UNCHANGED context
    /\ UNCHANGED <<trace, dispatch_frame>>

\* Endpoint::call of a Server: the nested server resolves the request with its
\* own router, adds the captures to the Context and starts the chain of its
\* own middleware and the endpoint it selected.  In envoy the path and method
\* are the request's; in envoy_http they are the Uri and Method values of the
\* Context's store, and borrowing a value that is not there panics.
CallServer ==
    /\ calls # <<>>
    /\ Top.op = "call"
    /\ Top.endpoint.kind = "Server"
    /\ IF build = "envoy" \/ {"Uri", "Method"} \subseteq DOMAIN context.ctx
       THEN LET path == IF build = "envoy" THEN context.req.path ELSE context.ctx["Uri"]
                method == IF build = "envoy" THEN context.req.method
                          ELSE context.ctx["Method"]
                sel == route(Top.endpoint.router, path, method)
            IN
                /\ context' = [context EXCEPT !.params = Append(@, sel.params)]
                /\ calls' = Returning \o
                                <<Next_run(Next_new(sel.endpoint, Top.endpoint.middleware))>>
                /\ UNCHANGED response
       ELSE /\ calls' = <<>>
            /\ response' = [outcome |-> "panic", status |-> 0, body |-> "", error |-> {},
                            mw |-> 0, ep |-> NoEndpoint, headers |-> <<>>]
            /\ UNCHANGED context
    /\ UNCHANGED <<trace, dispatch_frame>>

\* Server::respond returns: a response of the chain is passed on and an error
\* of the chain is made into a response; the Context is dropped.
Finish ==
    /\ in_flight = 1
    /\ calls = <<>>
    /\ response.outcome # "none"
    /\ request' = NoRequest
    /\ selection' = NoSelection
    /\ first_selection' = NoSelection
    /\ in_flight' = 0
    /\ context' = NoContext
    /\ trace' = <<>>
    /\ response' = NoResponse
    /\ history' = <<>>
    /\ returned' = Server_respond(response)
    /\ UNCHANGED <<router, crashed, again, echoed, middleware, config, build, calls,
                   builder_vars, serve_vars, listener_vars>>

----------------------------------------------------------------------------
(* Servers with global and route middleware, flat and nested *)

PathA == <<"/", "a">>
PathB == <<"/", "b">>
PathC == <<"/", "c">>
PathAB == <<"/", "a", "/", "b">>
Root == <<"/">>

\* app.with(m) for each middleware of the list, in its order.
RECURSIVE Server_with_all(_, _)
Server_with_all(server, ms) ==
    IF ms = <<>> THEN server
    ELSE Server_with_all(Server_with(server, Head(ms)), Tail(ms))

\* route.with(m) for each middleware of the list, in its order.
RECURSIVE Route_with_all(_, _)
Route_with_all(self, ms) ==
    IF ms = <<>> THEN self
    ELSE Route_with_all(Route_with(self, Head(ms)), Tail(ms))

\* The lists of distinct middleware.
MwLists ==
    {[i \in 1..Len(s) |-> Mw(s[i])] :
        s \in {t \in UNION {[1..n -> 1..MaxMw] : n \in 0..MaxMw} :
                  \A i, j \in 1..Len(t) : i < j => t[i] # t[j]}}

Part(s, from, to) == [i \in 1..(to - from) |-> s[from + i]]

\* The route the outer server has itself below the nest point: none, one with
\* the path of an inner route, or one that takes any first segment.
Overlaps == {<<>>, PathAB, <<"/", ":x", "/", "b">>}

\* A configuration: the global middleware and the middleware of the route /a;
\* for a nested one also the middleware of the inner server and of its route,
\* and the route the outer server has itself below the nest point.
ChainConfigs ==
    {[shape |-> "flat", build |-> b, overlap |-> <<>>,
      global |-> Part(x[1], 0, x[2]), route |-> Part(x[1], x[2], Len(x[1])),
      inner_global |-> <<>>, inner_route |-> <<>>] :
        b \in {"envoy", "envoy_http"},
        x \in {y \in MwLists \X (0..MaxMw) : y[2] <= Len(y[1])}}
    \cup
    {[shape |-> "nested", build |-> b, overlap |-> o,
      global |-> Part(x[1], 0, x[2][1]),
      route |-> Part(x[1], x[2][1], x[2][2]),
      inner_global |-> Part(x[1], x[2][2], x[2][3]),
      inner_route |-> Part(x[1], x[2][3], Len(x[1]))] :
        b \in {"envoy", "envoy_http"}, o \in Overlaps,
        x \in {y \in MwLists \X [1..3 -> 0..MaxMw] :
                  y[2][1] <= y[2][2] /\ y[2][2] <= y[2][3] /\ y[2][3] <= Len(y[1])}}

\* One statement of a server's configuration:
\* app.at(path).with(middleware...).method(method, ep), or .nest(ep).
Statement(path, mw, method, ep) ==
    [path |-> path, middleware |-> mw, method |-> method, ep |-> ep]

\* The statement made on the server.
Configure1(server, st) ==
    LET self == Route_with_all(Route_new(st.path), st.middleware)
        res == IF st.method = "nest"
               THEN Route_nest(server.router, self, st.ep)
               ELSE Route_method(server.router, self, st.method, st.ep)
    IN  [server EXCEPT !.router = res.router]

\* The statements made on the server one after the other.
RECURSIVE Configure(_, _)
Configure(server, sts) ==
    IF sts = <<>> THEN server
    ELSE Configure(Configure1(server, Head(sts)), Tail(sts))

\* app.with(global...); app.at("/a").with(route...).get(ep); app.at("/c").get(ep)
FlatApp(cfg) ==
    Configure(Server_with_all(Server_new, cfg.global),
              <<Statement(PathA, cfg.route, "GET", EndpointOf("GET", PathA)),
                Statement(PathC, <<>>, "GET", EndpointOf("GET", PathC))>>)

\* inner.with(inner_global...); inner.at("/").get(ep);
\* inner.at("/b").with(inner_route...).get(ep)
InnerApp(cfg) ==
    Configure(Server_with_all(Server_new, cfg.inner_global),
              <<Statement(Root, <<>>, "GET", EndpointOf("GET", Root)),
                Statement(PathB, cfg.inner_route, "GET", EndpointOf("GET", PathB))>>)

\* outer.with(global...); outer.at("/a").with(route...).nest(inner);
\* outer.at("/c").get(ep); and, with an overlap, outer.at(overlap).get(ep)
NestedApp(cfg) ==
    Configure(Server_with_all(Server_new, cfg.global),
              <<Statement(PathA, cfg.route, "nest", InnerApp(cfg)),
                Statement(PathC, <<>>, "GET", EndpointOf("GET", PathC))>>
              \o (IF cfg.overlap # <<>>
                  THEN <<Statement(cfg.overlap, <<>>, "GET",
                                   EndpointOf("GET", cfg.overlap))>>
                  ELSE <<>>))

App(cfg) == IF cfg.shape = "flat" THEN FlatApp(cfg) ELSE NestedApp(cfg)

ChainMethods == {"GET", "POST"}
ChainPaths == {PathA, PathAB, PathC, PathB, <<"/", "a", "/", "b", "/", "a">>}

InitChain ==
    /\ \E cfg \in ChainConfigs :
           LET app == App(cfg) IN
               /\ router = app.router
               /\ middleware = app.middleware
               /\ build = cfg.build
               /\ config = cfg
    /\ builders = <<>>
    /\ log = <<>>
    /\ ServeIdle
    /\ crashed = FALSE
    /\ request = NoRequest
    /\ selection = NoSelection
    /\ first_selection = NoSelection
    /\ in_flight = 0
    /\ again = FALSE
    /\ echoed = NoEcho
    /\ context = NoContext
    /\ calls = <<>>
    /\ trace = <<>>
    /\ response = NoResponse

NextChain ==
    \/ \E m \in ChainMethods, p \in ChainPaths, auth \in BOOLEAN : Dispatch(m, p, auth)
    \/ Handle
    \/ HandleReturn
    \/ CallHandler
    \/ CallMiddlewareEndpoint
    \/ CallStripPrefix
    \/ CallServer
    \/ Finish

SpecChain == InitChain /\ [][NextChain]_vars

----------------------------------------------------------------------------
(* The order of the middleware of a dispatch *)

\* The endpoint a route was registered with, without the middleware baked in.
Unwrapped(ep) == IF ep.kind = "MiddlewareEndpoint" THEN ep.endpoint ELSE ep

\* The selected endpoint is a handler or one of the router's own endpoints,
\* not a nested server.
SelectsHandler ==
    Unwrapped(selection.endpoint).kind
        \in {"endpoint", "not_found_endpoint", "method_not_allowed"}

\* The middleware the configuration gave the selected route, in the order of
\* the with calls: the route /a has some, the others none.
RouteMiddleware ==
    IF Unwrapped(selection.endpoint) = EndpointOf("GET", PathA)
          \/ Unwrapped(selection.endpoint).kind = "StripPrefixEndpoint"
    THEN config.route
    ELSE <<>>

\* The trace of a chain run as nested wrappers from its i-th middleware on:
\* each middleware starts, the rest of the chain runs inside it, and it gets
\* the response; a middleware that answers itself ends the chain.
RECURSIVE Wrapped(_, _, _, _)
Wrapped(chain, i, req, innermost) ==
    IF i > Len(chain) THEN innermost
    ELSE IF CallsNext(chain[i], req)
         THEN <<Pre(chain[i])>> \o Wrapped(chain, i + 1, req, innermost)
                  \o <<Post(chain[i])>>
         ELSE <<Pre(chain[i])>>

IsPrefix(s, t) == Len(s) <= Len(t) /\ s = SubSeq(t, 1, Len(s))

Dispatched == in_flight = 1 /\ calls = <<>> /\ response.outcome # "none"

\* The positions of an event in the trace.
At(ev) == {i \in 1..Len(trace) : trace[i] = ev}

\* C12: in every dispatch the global middleware run in the order they were
\* added, then the middleware of the selected route in the order they were
\* accumulated, then the endpoint, as nested wrappers: a middleware starts
\* before everything after it in that order and gets the response after all
\* of it has returned.
C12_RegistrationOrderNested ==
    (in_flight = 1 /\ SelectsHandler) =>
        LET chain == config.global \o RouteMiddleware
            whole == Wrapped(chain, 1, context.req,
                             <<Called(Unwrapped(selection.endpoint))>>)
        IN  /\ IsPrefix(trace, whole)
            /\ Dispatched => trace = whole
            /\ \A i, j \in 1..Len(chain) :
                   i < j =>
                       /\ \A a \in At(Pre(chain[i])), b \in At(Pre(chain[j])) : a < b
                       /\ \A a \in At(Post(chain[i])), b \in At(Post(chain[j])) : b < a
                       /\ \A a \in At(Pre(chain[i])), b \in At(Post(chain[j])) : a < b
            /\ \A i \in 1..Len(chain), c \in At(Called(Unwrapped(selection.endpoint))) :
                   /\ \A a \in At(Pre(chain[i])) : a < c
                   /\ \A a \in At(Post(chain[i])) : c < a

\* Two global middleware and one of the route have all passed the request on
\* and got the response back.
C12_Witness ==
    /\ Dispatched
    /\ Len(config.global) = 2
    /\ Len(config.route) = 1
    /\ request = [method |-> "GET", path |-> PathA]
    /\ Len(trace) = 7
    /\ trace[4] = Called(EndpointOf("GET", PathA))

\* The middleware of the whole dispatch that answered the request itself.
Answered == {i \in 1..Len(trace) : trace[i].ev = "pre" /\ ~CallsNext(Mw(trace[i].mw), context.req)}

\* C13: when a middleware returns without calling next.run, no middleware
\* after it in the chain and not the endpoint are invoked, and the response is
\* the one it produced; when every middleware calls next.run, every
\* middleware and the endpoint are invoked exactly once.
C13_ShortCircuit ==
    in_flight = 1 =>
        /\ \A i \in Answered :
               /\ \A j \in (i + 1)..Len(trace) : trace[j].ev = "post"
               /\ response.outcome = "response"
               /\ response.status = 401
               /\ response.mw = trace[i].mw
        /\ SelectsHandler =>
               LET chain == config.global \o RouteMiddleware
                   ep == Unwrapped(selection.endpoint)
               IN  /\ \A i \in 1..Len(chain) :
                          /\ Cardinality(At(Pre(chain[i]))) <= 1
                          /\ (\E k \in 1..(i - 1) : ~CallsNext(chain[k], context.req))
                                 => At(Pre(chain[i])) = {}
                   /\ Cardinality(At(Called(ep))) <= 1
                   /\ (\E k \in 1..Len(chain) : ~CallsNext(chain[k], context.req))
                          => At(Called(ep)) = {}
                   /\ (Dispatched /\ \A k \in 1..Len(chain) : CallsNext(chain[k], context.req))
                          => /\ \A k \in 1..Len(chain) :
                                    /\ Cardinality(At(Pre(chain[k]))) = 1
                                    /\ Cardinality(At(Post(chain[k]))) = 1
                             /\ Cardinality(At(Called(ep))) = 1
                             /\ response.ep = ep
                             /\ Cardinality({e \in 1..Len(trace) : trace[e].ev = "call"}) = 1

\* auth_middleware, second in the chain, answered 401: the middleware after
\* it and the endpoint were not invoked.
C13_Witness ==
    /\ Dispatched
    /\ SelectsHandler
    /\ Len(config.global \o RouteMiddleware) = 3
    /\ (config.global \o RouteMiddleware)[2] = Mw(1)
    /\ ~context.req.auth
    /\ response.status = 401
    /\ Len(trace) = 3

\* Every middleware of a chain of three passed the request on.
C13_WitnessAll ==
    /\ Dispatched
    /\ SelectsHandler
    /\ Len(config.global \o RouteMiddleware) = 3
    /\ response.status = 200
    /\ Len(trace) = 7

----------------------------------------------------------------------------
(* Configuring a server through its Route builders *)

MaxOps == 6        \* calls made on the server and its builders

BuildRoots == {PathA, PathAB}
BuildSubs == {PathB}

\* A builder is made from a server or from a builder made from a server.
MaxDepth == Cardinality(BuildSubs) + 1
\* One call of the log: the builder it was made on, and what it was given or
\* gave: the parent of a new builder (0 for Server::at), the middleware of a
\* with, the handler of a registration.
Entry(op, builder, parent, mw, ep) ==
    [op |-> op, builder |-> builder, parent |-> parent, mw |-> mw, ep |-> ep]

Count(op) == Cardinality({i \in 1..Len(log) : log[i].op = op})

\* The builder the calls are made on: the one no other borrows.
Current == builders[Len(builders)]

\* The calls that configure a server are made before it serves, one at a time.
Configuring ==
    /\ ~crashed
    /\ in_flight = 0
    /\ Len(log) < MaxOps

build_frame ==
    <<crashed, request, selection, first_selection, in_flight, again, echoed, chain_vars,
      history, serve_vars,
                   returned, listener_vars>>

\* A variant of Server::at: the builder starts with the middleware given to
\* the builders before it.
ServerAt_accumulating(path) ==
    /\ Configuring
    /\ builders = <<>>
    /\ LET id == Count("at") + 1 IN
           /\ builders' = <<[id |-> id,
                             route |-> [Route_new(path) EXCEPT
                                           !.middleware = [i \in 1..Count("with") |-> Mw(i)]]]>>
           /\ log' = Append(log, Entry("at", id, 0, 0, NoEndpoint))
    /\ UNCHANGED <<router, build_frame>>

\* Server::at: a builder for the path, with no middleware.
ServerAt(path) ==
    /\ Configuring
    /\ builders = <<>>
    /\ LET id == Count("at") + 1 IN
           /\ builders' = <<[id |-> id, route |-> Route_new(path)]>>
           /\ log' = Append(log, Entry("at", id, 0, 0, NoEndpoint))
    /\ UNCHANGED <<router, build_frame>>

\* Route::at on the current builder: the child borrows it until it is dropped.
RouteAt(path) ==
    /\ Configuring
    /\ builders # <<>>
    /\ Len(builders) < MaxDepth
    /\ LET id == Count("at") + 1 IN
           /\ builders' = Append(builders,
                                 [id |-> id, route |-> Route_at(Current.route, path)])
           /\ log' = Append(log, Entry("at", id, Current.id, 0, NoEndpoint))
    /\ UNCHANGED <<router, build_frame>>

\* Route::with on the current builder, with a middleware not used before.
RouteWith ==
    /\ Configuring
    /\ builders # <<>>
    /\ Count("with") < MaxMw
    /\ LET m == Mw(Count("with") + 1) IN
           /\ builders' = [builders EXCEPT ![Len(builders)].route = Route_with(@, m)]
           /\ log' = Append(log, Entry("with", Current.id, 0, m.id, NoEndpoint))
    /\ UNCHANGED <<router, build_frame>>

\* Route::reset_middleware on the current builder.
RouteReset ==
    /\ Configuring
    /\ builders # <<>>
    /\ builders' = [builders EXCEPT ![Len(builders)].route = Route_reset_middleware(@)]
    /\ log' = Append(log, Entry("reset", Current.id, 0, 0, NoEndpoint))
    /\ UNCHANGED <<router, build_frame>>

\* Route::method on the current builder; a route the table refuses panics.
RouteMethod(method) ==
    /\ Configuring
    /\ builders # <<>>
    /\ LET ep == EndpointOf(method, Current.route.path)
           res == Route_method(router, Current.route, method, ep)
       IN  IF res.ok
           THEN /\ router' = res.router
                /\ log' = Append(log, Entry("method", Current.id, 0, 0, ep))
                /\ UNCHANGED <<builders, build_frame>>
           ELSE Panic

\* The current builder goes out of scope; the one it borrowed can be used
\* again.
RouteDrop ==
    /\ ~crashed
    /\ in_flight = 0
    /\ builders # <<>>
    /\ builders' = SubSeq(builders, 1, Len(builders) - 1)
    /\ UNCHANGED <<router, log, build_frame>>

\* Server::respond up to the selection of the endpoint, while no builder
\* borrows the server.
RespondBuilt(method, path) ==
    /\ builders = <<>>
    /\ Respond(method, path)

BuildMethods == {"GET", "POST"}
BuildPaths == {PathA, PathAB}

InitBuild ==
    /\ router = NewRouter
    /\ crashed = FALSE
    /\ request = NoRequest
    /\ selection = NoSelection
    /\ first_selection = NoSelection
    /\ in_flight = 0
    /\ again = FALSE
    /\ echoed = NoEcho
    /\ ChainIdle

NextBuild ==
    \/ \E p \in BuildRoots : ServerAt(p)
    \/ \E p \in BuildSubs : RouteAt(p)
    \/ RouteWith
    \/ RouteReset
    \/ \E m \in BuildMethods : RouteMethod(m)
    \/ RouteDrop
    \/ \E m \in BuildMethods, p \in BuildPaths : RespondBuilt(m, p)
    \/ Returned

SpecBuild == InitBuild /\ [][NextBuild]_vars

----------------------------------------------------------------------------
(* The middleware baked into the registered handlers *)

\* The calls of the log of one kind, by their positions.
Entries(op) == {i \in 1..Len(log) : log[i].op = op}

\* The call that made the builder, and the builder it was made from (0 when
\* it was made by Server::at).
Created(b) == CHOOSE i \in Entries("at") : log[i].builder = b
ParentOf(b) == log[Created(b)].parent

\* The builder and the builders it derives from by `at`.
RECURSIVE Lineage(_)
Lineage(b) == IF b = 0 THEN {} ELSE {b} \cup Lineage(ParentOf(b))

\* The middleware baked into the route of a registered handler, as the router
\* holds it.
Baked(ep) ==
    LET e == CHOOSE x \in AllEntries : Unwrapped(x.endpoint) = ep IN
    IF e.endpoint.kind = "MiddlewareEndpoint" THEN e.endpoint.middleware ELSE <<>>

Ids(mws) == {mws[k].id : k \in 1..Len(mws)}

\* The middleware given to the builder by the with calls after position
\* `from` and before position `to`, in the order of the calls.
RECURSIVE Given(_, _, _)
Given(b, from, to) ==
    IF from + 1 >= to THEN <<>>
    ELSE (IF log[from + 1].op = "with" /\ log[from + 1].builder = b
          THEN <<Mw(log[from + 1].mw)>> ELSE <<>>)
             \o Given(b, from + 1, to)

\* The resets of the builder before position `to`.
Resets(b, to) == {i \in Entries("reset") : log[i].builder = b /\ i < to}

Latest(S) == CHOOSE i \in S : \A j \in S : j <= i

\* What a builder has accumulated before position `to` of the log: what its
\* parent had accumulated when it was made, then what it was given itself;
\* after a reset only what it was given since.
RECURSIVE Accumulated(_, _)
Accumulated(b, to) ==
    IF Resets(b, to) # {} THEN Given(b, Latest(Resets(b, to)), to)
    ELSE (IF ParentOf(b) = 0 THEN <<>> ELSE Accumulated(ParentOf(b), Created(b)))
             \o Given(b, Created(b), to)

\* The registration of the handler the request selected.
SelectedRegistration ==
    CHOOSE h \in Entries("method") : log[h].ep = Unwrapped(selection.endpoint)

\* C14: a middleware added with Route.with runs only for requests that select
\* a handler registered through the builder it was added to or through a
\* builder derived from that one by `at`: never for a handler registered
\* through another builder, also when that builder's path extends the first
\* one's (`/a/b` made by Server::at does not get the middleware of `/a`).
C14_ScopedByLineage ==
    (in_flight = 1 /\ Unwrapped(selection.endpoint).kind = "endpoint") =>
        LET chain == Baked(Unwrapped(selection.endpoint))
            via == log[SelectedRegistration].builder
        IN  /\ (selection.endpoint.kind = "MiddlewareEndpoint") <=> chain # <<>>
            /\ chain # <<>> => selection.endpoint.middleware = chain
            /\ \A w \in Entries("with") :
                   log[w].mw \in Ids(chain) => log[w].builder \in Lineage(via)
            /\ ParentOf(via) = 0 =>
                   \A w \in Entries("with") :
                       log[w].mw \in Ids(chain) => log[w].builder = via

\* The request selected the handler registered at /a/b through a builder made
\* by Server::at; the route /a, registered through another builder, has a
\* middleware, which is not run for the request.
C14_Witness ==
    /\ in_flight = 1
    /\ request.path = PathAB
    /\ Unwrapped(selection.endpoint).kind = "endpoint"
    /\ ParentOf(log[SelectedRegistration].builder) = 0
    /\ selection.endpoint.kind = "endpoint"
    /\ \E h \in Entries("method") :
           /\ log[h].ep.path = PathA
           /\ Baked(log[h].ep) # <<>>

\* C15: Route.at gives the child a copy of what the parent has accumulated at
\* the moment of the call.  The handlers registered through the child are
\* wrapped by that followed by the child's own middleware; a with on the child
\* leaves the parent's accumulation as it was; a later with on the parent does
\* not reach the handlers registered through the child.
C15_AtCopiesAccumulation ==
    /\ \A h \in Entries("method") :
           LET b == log[h].builder
               p == ParentOf(b)
           IN  p # 0 =>
                   /\ Resets(b, h) = {} =>
                          Baked(log[h].ep) =
                              Accumulated(p, Created(b)) \o Given(b, Created(b), h)
                   /\ \A w \in Entries("with") :
                          (log[w].builder = p /\ w > Created(b))
                              => log[w].mw \notin Ids(Baked(log[h].ep))
    /\ \A k \in 1..(Len(builders) - 1) :
           builders[k].route.middleware =
               Accumulated(builders[k].id, Created(builders[k + 1].id))

\* A handler registered through a child carries the parent's middleware and
\* then the child's own, and the parent was given a further one afterwards.
C15_Witness ==
    \E h \in Entries("method"), w \in Entries("with") :
        /\ ParentOf(log[h].builder) # 0
        /\ Baked(log[h].ep) = <<Mw(1), Mw(2)>>
        /\ log[Latest({i \in Entries("with") : log[i].mw = 1})].builder
               = ParentOf(log[h].builder)
        /\ log[Latest({i \in Entries("with") : log[i].mw = 2})].builder = log[h].builder
        /\ w > h
        /\ log[w].builder = ParentOf(log[h].builder)

\* The builders between the one a with was called on and the one a handler
\* was registered through had no reset between the two calls.
NoResetBetween(w, h) ==
    \A r \in Entries("reset") :
        (w < r /\ r < h) => log[r].builder \notin Lineage(log[h].builder)

\* C16: Route.with(m) affects later registrations only.  A handler registered
\* before the call is never wrapped by m; a handler registered after it
\* through the builder or a descendant, with no reset in between, is wrapped
\* by m; and the list baked into a registered handler is what its builder had
\* accumulated when it was registered, whatever is called later.
C16_WithAffectsLaterOnly ==
    \A h \in Entries("method") :
        /\ \A w \in Entries("with") :
               /\ h < w => log[w].mw \notin Ids(Baked(log[h].ep))
               /\ (w < h /\ log[w].builder \in Lineage(log[h].builder)
                       /\ NoResetBetween(w, h))
                      => log[w].mw \in Ids(Baked(log[h].ep))
        /\ Baked(log[h].ep) = Accumulated(log[h].builder, h)

\* One builder: a handler registered, then a with, then a second handler; the
\* first has no middleware and the second has the one given.
C16_Witness ==
    \E h1, h2 \in Entries("method"), w \in Entries("with") :
        /\ log[h1].builder = log[w].builder
        /\ log[h2].builder = log[w].builder
        /\ h1 < w
        /\ w < h2
        /\ Baked(log[h1].ep) = <<>>
        /\ Baked(log[h2].ep) = <<Mw(log[w].mw)>>

\* C17: reset_middleware clears the accumulation of the builder only.  The
\* handlers registered before the reset keep the middleware they were
\* registered with, and the handlers registered after it through the same
\* builder get none of the middleware accumulated before it.
C17_ResetClearsBuilderOnly ==
    \A r \in Entries("reset"), h \in Entries("method") :
        log[h].builder = log[r].builder =>
            /\ h < r =>
                   \A w \in Entries("with") :
                       (w < h /\ log[w].builder = log[h].builder
                            /\ Resets(log[h].builder, h) \subseteq 1..w)
                           => log[w].mw \in Ids(Baked(log[h].ep))
            /\ r < h =>
                   \A w \in Entries("with") :
                       w < r => log[w].mw \notin Ids(Baked(log[h].ep))

\* with, post, reset, get on one builder: the POST route keeps the middleware
\* and the GET route has none.
C17_Witness ==
    \E r \in Entries("reset"), h1, h2 \in Entries("method"), w \in Entries("with") :
        /\ {log[h1].builder, log[h2].builder, log[w].builder} = {log[r].builder}
        /\ w < h1
        /\ h1 < r
        /\ r < h2
        /\ log[h1].ep.method = "POST"
        /\ log[h2].ep.method = "GET"
        /\ Baked(log[h1].ep) = <<Mw(log[w].mw)>>
        /\ Baked(log[h2].ep) = <<>>

----------------------------------------------------------------------------
(* Requests to a nested server *)

\* The selected route is the mount of the nested server.
SelectsNest == Unwrapped(selection.endpoint).kind = "StripPrefixEndpoint"

\* The nested server, the remainder the wildcard of its mount captured, and
\* the path "/" + remainder.
Inner == Unwrapped(selection.endpoint).endpoint
Remainder == selection.params.wildcard.rest
Stripped == <<SLASH>> \o Remainder

\* What the nested server's router selects for the stripped path.
InnerSelection == route(Inner.router, Stripped, request.method)

\* The middleware the configuration gave the route the nested server selects.
InnerRouteMiddleware ==
    IF Unwrapped(InnerSelection.endpoint) = EndpointOf("GET", PathB)
    THEN config.inner_route
    ELSE <<>>

Passes(chain) == \A k \in 1..Len(chain) : CallsNext(chain[k], context.req)

\* The nested server has routed the request on the stripped path, and its
\* handler has answered when its middleware let it.
RoutedOnRemainder ==
    /\ response.outcome = "response"
    /\ context.req.path = Stripped
    /\ Len(context.params) = 2
    /\ context.params[2] = InnerSelection.params
    /\ (Remainder = <<>> /\ request.method = "GET")
           => Unwrapped(InnerSelection.endpoint) = EndpointOf("GET", Root)
    /\ Passes(config.inner_global \o InnerRouteMiddleware)
           => response.ep = Unwrapped(InnerSelection.endpoint)

\* C18: a request to X/R, for a server nested at X, is routed by the nested
\* server on the path /R, the remainder the mount's wildcard captured, which
\* the adapter has written into the request; a request to X itself selects
\* the nested server's `/` route.
C18_Original ==
    (Dispatched /\ SelectsNest /\ Passes(config.global \o config.route))
        => RoutedOnRemainder

\* The same of the servers built from the envoy crate only.
C18_InEnvoy ==
    (build = "envoy" /\ Dispatched /\ SelectsNest
         /\ Passes(config.global \o config.route))
        => RoutedOnRemainder

\* A request to /a/b was routed by the server nested at /a to its route /b.
C18_InEnvoyWitness ==
    /\ build = "envoy"
    /\ Dispatched
    /\ SelectsNest
    /\ request = [method |-> "GET", path |-> PathAB]
    /\ response.ep = EndpointOf("GET", PathB)

\* A request to /a was routed by the server nested at /a to its route /.
C18_InEnvoyWitnessRoot ==
    /\ build = "envoy"
    /\ Dispatched
    /\ SelectsNest
    /\ request = [method |-> "GET", path |-> PathA]
    /\ response.ep = EndpointOf("GET", Root)

\* In envoy_http the dispatch of a request to a nested server ends in a panic,
\* or in an error when the remainder is no URI.
C18_InEnvoyHttp ==
    (build = "envoy_http" /\ Dispatched /\ SelectsNest
         /\ Passes(config.global \o config.route))
        => /\ response.outcome \in {"panic", "error"}
           /\ Len(context.params) = 1
           /\ response.outcome = "error" <=> ~Uri_from_str(Remainder).ok

\* The request matches a route the outer server registered itself for the
\* request's method.
OuterMatches ==
    LET segs == ReqSegs IN
    \E e \in TableOf(request.method) :
        Unwrapped(e.endpoint).kind = "endpoint" /\ Captures(e.spec, segs).ok

\* The request matches the mount of a nested server.
MountMatches ==
    LET segs == ReqSegs IN
    \E e \in AllEntries :
        Unwrapped(e.endpoint).kind = "StripPrefixEndpoint" /\ Captures(e.spec, segs).ok

\* C19: for a request that matches both a route registered on the outer
\* server for the request's method and the mount of a nested server, the
\* outer server's handler is selected and the nested server is not invoked.
C19_OuterServerFirst ==
    (in_flight = 1 /\ OuterMatches /\ MountMatches) =>
        /\ Unwrapped(selection.endpoint).kind = "endpoint"
        /\ \E e \in TableOf(request.method) : e.endpoint = selection.endpoint
        /\ Len(context.params) = 1
        /\ \A k \in 1..Len(calls) :
               calls[k].op = "call"
                   => calls[k].endpoint.kind \notin {"StripPrefixEndpoint", "Server"}
        /\ response.outcome \in {"none", "response"}
        /\ Dispatched /\ Passes(config.global)
               => response.ep = Unwrapped(selection.endpoint)

\* GET /a/b with the outer route /:x/b and a server with a route /b nested at
\* /a: the handler of the outer route answered.
C19_Witness ==
    /\ Dispatched
    /\ config.shape = "nested"
    /\ config.overlap = <<"/", ":x", "/", "b">>
    /\ request = [method |-> "GET", path |-> PathAB]
    /\ MountMatches
    /\ response.ep = EndpointOf("GET", <<"/", ":x", "/", "b">>)

\* C20: for a request routed into a nested server the middleware run in the
\* order outer global, route middleware of the nest point, inner global,
\* inner route middleware, endpoint; the inner server's middleware never run
\* for a request that selects another route of the outer server.
C20_Original ==
    /\ (Dispatched /\ SelectsNest) =>
           trace = Wrapped(config.global \o config.route \o config.inner_global
                               \o InnerRouteMiddleware,
                           1, context.req,
                           <<Called(Unwrapped(InnerSelection.endpoint))>>)
    /\ (in_flight = 1 /\ SelectsHandler) =>
           \A i \in 1..Len(trace) :
               trace[i].mw \notin Ids(config.inner_global \o config.inner_route)

\* The same of the servers built from the envoy crate only.
C20_InEnvoy ==
    build = "envoy" => C20_Original

\* One middleware at each of the four places, all run around the inner
\* handler.
C20_InEnvoyWitness ==
    /\ build = "envoy"
    /\ Dispatched
    /\ SelectsNest
    /\ Len(config.global) = 1
    /\ Len(config.route) = 1
    /\ Len(config.inner_global) = 1
    /\ Len(trace) = 7
    /\ trace[4] = Called(EndpointOf("GET", Root))

\* In envoy_http no middleware of a nested server ever runs.
C20_InEnvoyHttp ==
    (build = "envoy_http" /\ in_flight = 1) =>
        \A i \in 1..Len(trace) :
            trace[i].mw \notin Ids(config.inner_global \o config.inner_route)

----------------------------------------------------------------------------
(* The middleware of a dispatch that selects no route *)

\* The router selected one of its own endpoints: no route matches the request.
SelectsFallback ==
    selection.endpoint.kind \in {"not_found_endpoint", "method_not_allowed"}

\* The middleware the configuration gave to routes, of the outer server or of
\* the nested one.
RouteLevel == Ids(config.route) \cup Ids(config.inner_route)

\* C21: the global middleware run for every dispatch, whatever the routing
\* selected.  When the selection is the router's 404 or 405 endpoint, the
\* dispatch is the chain of the global middleware, in their order, around that
\* endpoint, and no middleware given to a route takes part in it; a middleware
\* that answers itself ends the chain as it does for a route.
C21_GlobalMiddlewareAlways ==
    /\ (Dispatched /\ response.outcome # "panic") =>
           \A k \in 1..Len(middleware) :
               (\A j \in 1..(k - 1) : CallsNext(middleware[j], context.req))
                   => /\ At(Pre(middleware[k])) # {}
                      /\ \A i \in 1..Len(trace) : trace[i].ev = "call" =>
                             \E p \in At(Pre(middleware[k])) : p < i
    /\ (Dispatched /\ SelectsFallback) =>
           /\ trace = Wrapped(middleware, 1, context.req, <<Called(selection.endpoint)>>)
           /\ \A i \in 1..Len(trace) : trace[i].mw \notin RouteLevel
           /\ Passes(middleware) =>
                  /\ response.status = Status(selection.endpoint)
                  /\ {response.headers[i] : i \in 1..Len(response.headers)} =
                         {middleware[k].id : k \in {j \in 1..Len(middleware) :
                                                       middleware[j].kind = "header"}}

\* POST /a on a server whose route /a is registered for GET with middleware of
\* its own: the 405 endpoint ran inside two global middleware.
C21_Witness405 ==
    /\ Dispatched
    /\ selection.endpoint = method_not_allowed
    /\ Len(middleware) = 2
    /\ config.route # <<>>
    /\ Passes(middleware)
    /\ trace = <<Pre(middleware[1]), Pre(middleware[2]), Called(method_not_allowed),
                 Post(middleware[2]), Post(middleware[1])>>

\* A path no route matches: the 404 endpoint ran inside the global middleware.
C21_Witness404 ==
    /\ Dispatched
    /\ selection.endpoint = not_found_endpoint
    /\ Len(middleware) >= 1
    /\ Passes(middleware)
    /\ At(Called(not_found_endpoint)) # {}
    /\ At(Post(middleware[1])) # {}

----------------------------------------------------------------------------
(* The typed store of a Context *)

MaxStoreOps == 4   \* calls made on the store of one Context

\* The types of the values kept in the store, named as TypeId::of names them,
\* and the values of each type.
StoreTypes == {"Uri", "Method"}
StoreValues(T) == IF T = "Uri" THEN {PathA, PathB} ELSE {"GET", "POST"}

\* A call made on the Context: what it was given, what it returned, whether it
\* panicked, and the Context before and after it.
Call(op, T, arg, out, panicked) ==
    [op |-> op, type |-> T, arg |-> arg, result |-> out.result, panicked |-> panicked,
     before |-> context, after |-> out.context]

store_frame ==
    <<router, request, selection, first_selection, in_flight, again, echoed, middleware,
      config, build, calls, trace, response, builder_vars, serve_vars,
                   returned, listener_vars>>

\* The call is made: the Context is what it left, and a panic ends the run.
Made(op, T, arg, out, panics) ==
    /\ ~crashed
    /\ in_flight = 1
    /\ Len(history) < MaxStoreOps
    /\ LET panicked == panics /\ out.result = None IN
           /\ history' = Append(history, Call(op, T, arg, out, panicked))
           /\ context' = out.context
           /\ crashed' = panicked
    /\ UNCHANGED store_frame

\* ctx.insert(value)
Insert(T, value) == Made("insert", T, Some(value), Context_insert(context, T, value), FALSE)

\* ctx.try_borrow::<T>()
TryBorrow(T) ==
    Made("try_borrow", T, None,
         [context |-> context, result |-> Context_try_borrow(context, T)], FALSE)

\* ctx.borrow::<T>(): panics if the value does not exist.
Borrow(T) ==
    Made("borrow", T, None,
         [context |-> context, result |-> Context_try_borrow(context, T)], TRUE)

\* *ctx.borrow_mut::<T>() = value: panics if the value does not exist.
BorrowMut(T, value) ==
    Made("borrow_mut", T, Some(value), Context_try_borrow_mut(context, T, value), TRUE)

\* ctx.try_take::<T>()
TryTake(T) == Made("try_take", T, None, Context_try_take(context, T), FALSE)

\* ctx.take::<T>(): panics if the value does not exist.
Take(T) == Made("take", T, None, Context_try_take(context, T), TRUE)

\* The Context of a request to the route `/:x`, as Server::respond makes it.
InitStore ==
    /\ router = add(NewRouter, <<"/", ":x">>, "GET", EndpointOf("GET", <<"/", ":x">>)).router
    /\ \E path \in {PathA, PathB} :
           LET sel == route(router, path, "GET") IN
               /\ request = [method |-> "GET", path |-> path]
               /\ selection = sel
               /\ first_selection = sel
               /\ context = Context_new([method |-> "GET", path |-> path, auth |-> FALSE],
                                        <<sel.params>>)
    /\ in_flight = 1
    /\ crashed = FALSE
    /\ again = FALSE
    /\ echoed = NoEcho
    /\ middleware = <<>>
    /\ config = NoConfig
    /\ build = "envoy_http"
    /\ calls = <<>>
    /\ trace = <<>>
    /\ response = NoResponse
    /\ builders = <<>>
    /\ log = <<>>
    /\ ServeIdle

NextStore ==
    \/ \E T \in StoreTypes : \E value \in StoreValues(T) : Insert(T, value)
    \/ \E T \in StoreTypes : TryBorrow(T)
    \/ \E T \in StoreTypes : Borrow(T)
    \/ \E T \in StoreTypes : \E value \in StoreValues(T) : BorrowMut(T, value)
    \/ \E T \in StoreTypes : TryTake(T)
    \/ \E T \in StoreTypes : Take(T)

SpecStore == InitStore /\ [][NextStore]_vars

----------------------------------------------------------------------------
(* Properties of the typed store *)

\* The calls made on values of the type.
Of(T) == {i \in 1..Len(history) : history[i].type = T}

\* The call of Of(T) that follows the call i, if any.
Following(i, T) == {j \in Of(T) : j > i /\ \A k \in Of(T) : ~(i < k /\ k < j)}

Takes == {"take", "try_take"}

\* C22: a take of the type T that follows an insert of the value v of T
\* returns v, does not panic, and removes it: a try_borrow or a try_take of T
\* that follows the take returns none.  Calls on values of other types may lie
\* between them, and values of other types may be stored.
C22_InsertTakeRoundTrip ==
    \A T \in StoreTypes :
        \A i \in Of(T) : \A j \in Following(i, T) :
            (history[i].op = "insert" /\ history[j].op \in Takes) =>
                /\ history[j].result = history[i].arg
                /\ ~history[j].panicked
                /\ T \notin DOMAIN history[j].after.ctx
                /\ \A k \in Following(j, T) :
                       history[k].op \in {"try_borrow", "try_take"} =>
                           /\ history[k].result = None
                           /\ ~history[k].panicked

\* insert::<Uri>, insert::<Method>, take::<Uri>, try_borrow::<Uri>: the take
\* returned the Uri and the try_borrow none, with the Method stored throughout.
C22_Witness ==
    /\ Len(history) = 4
    /\ history[1].op = "insert" /\ history[1].type = "Uri" /\ history[1].arg = Some(PathB)
    /\ history[2].op = "insert" /\ history[2].type = "Method"
    /\ history[3].op = "take" /\ history[3].type = "Uri" /\ history[3].result = Some(PathB)
    /\ history[4].op = "try_borrow" /\ history[4].type = "Uri" /\ history[4].result = None
    /\ DOMAIN context.ctx = {"Method"}

\* insert, try_take, try_take of one type: the second try_take returned none.
C22_WitnessTryTake ==
    /\ Len(history) = 3
    /\ history[1].op = "insert" /\ history[1].type = "Method"
    /\ history[2].op = "try_take" /\ history[2].type = "Method"
    /\ history[2].result = history[1].arg
    /\ history[3].op = "try_take" /\ history[3].type = "Method" /\ history[3].result = None

\* C23: a store holds at most one value for a type, whatever calls were made:
\* its keys are types and each has one value of that type.  An insert of the
\* type T returns the value stored for T before it, or none when there was
\* none, and leaves its argument as the value of T.
C23_OneValuePerType ==
    /\ DOMAIN context.ctx \subseteq StoreTypes
    /\ \A T \in DOMAIN context.ctx : context.ctx[T] \in StoreValues(T)
    /\ \A i \in 1..Len(history) :
           LET c == history[i] IN
               c.op = "insert" =>
                   /\ c.result = (IF c.type \in DOMAIN c.before.ctx
                                  THEN Some(c.before.ctx[c.type]) ELSE None)
                   /\ c.type \in DOMAIN c.after.ctx
                   /\ Some(c.after.ctx[c.type]) = c.arg
                   /\ Context_try_borrow(c.after, c.type) = c.arg

\* insert::<Uri>(/a), insert::<Uri>(/b): the second returned /a and /b is the
\* Uri of the store; the first returned none.
C23_Witness ==
    /\ Len(history) >= 2
    /\ history[1].op = "insert" /\ history[1].type = "Uri" /\ history[1].arg = Some(PathA)
    /\ history[1].result = None
    /\ history[2].op = "insert" /\ history[2].type = "Uri" /\ history[2].arg = Some(PathB)
    /\ history[2].result = Some(PathA)
    /\ history[2].after.ctx["Uri"] = PathB

\* C24: a call on the value of the type T leaves the value of every other
\* type as it was, stored or not, and leaves the request and the captures of
\* the Context as they were.
C24_TypesDoNotCollide ==
    \A i \in 1..Len(history) :
        LET c == history[i] IN
            /\ c.after.req = c.before.req
            /\ c.after.params = c.before.params
            /\ \A U \in StoreTypes \ {c.type} :
                   Context_try_borrow(c.after, U) = Context_try_borrow(c.before, U)

\* With a Method stored, a Uri was inserted, changed through borrow_mut and
\* taken: the Method is still the one inserted first.
C24_Witness ==
    /\ Len(history) = 4
    /\ history[1].op = "insert" /\ history[1].type = "Method" /\ history[1].arg = Some("POST")
    /\ history[2].op = "insert" /\ history[2].type = "Uri"
    /\ history[3].op = "borrow_mut" /\ history[3].type = "Uri"
    /\ history[3].arg # history[2].arg
    /\ history[4].op = "take" /\ history[4].type = "Uri"
    /\ history[4].result = history[3].arg
    /\ Context_try_borrow(context, "Method") = Some("POST")
    /\ context.params = <<selection.params>>

----------------------------------------------------------------------------
(* Handlers that read the captures of their Context *)

\* Captures::get: the value of the first binding of the name, if any.
RECURSIVE Captures_get(_, _)
Captures_get(captures, key) ==
    IF captures.params = <<>> THEN None
    ELSE IF Head(captures.params).name = key THEN Some(Head(captures.params).value)
    ELSE Captures_get([captures EXCEPT !.params = Tail(@)], key)

\* A variant of Context::param: the stack is searched from the oldest captures.
RECURSIVE Context_param_oldest_first(_, _)
Context_param_oldest_first(params, key) ==
    IF params = <<>> THEN None
    ELSE LET found == Captures_get(Head(params), key) IN
         IF found # None THEN found ELSE Context_param_oldest_first(Tail(params), key)

\* A variant of Context::param: a name that is not bound reads as the empty
\* string.
RECURSIVE Context_param_or_empty(_, _)
Context_param_or_empty(params, key) ==
    IF params = <<>> THEN Some("")
    ELSE LET found == Captures_get(params[Len(params)], key) IN
         IF found # None THEN found
         ELSE Context_param_or_empty(SubSeq(params, 1, Len(params) - 1), key)

\* Context::param: the binding of the name in the latest captures that have
\* one; none stands for the error `Param "name" not found`.
RECURSIVE Context_param(_, _)
Context_param(params, key) ==
    IF params = <<>> THEN None
    ELSE LET found == Captures_get(params[Len(params)], key) IN
         IF found # None THEN found
         ELSE Context_param(SubSeq(params, 1, Len(params) - 1), key)

\* How a handler takes the error of ctx.param: it returns it (`?`) or goes on
\* with a default (`unwrap_or`).
Propagate == "?"
Default == "unwrap_or"

\* A handler that returns the error of ctx.param and parses the value as a
\* number, returning an error of status 400 when it is none (add_one).
Parse == "parse"

\* The segment texts that are numbers.
Numbers == {"3"}

\* What the handler returns for what ctx.param gave it.
Read(p, way, ep) ==
    IF p = None /\ way \in {Propagate, Parse}
    THEN Err(Error_new(500, "param not found"), 0, ep)
    ELSE IF way = Parse /\ p \cap Numbers = {}
    THEN Err(Error_new(400, "invalid digit found in string"), 0, ep)
    ELSE [outcome |-> "response", status |-> 200, body |-> "ok", error |-> {},
          mw |-> 0, ep |-> ep, headers |-> <<>>]

\* Endpoint::call of a handler that reads ctx.param(key) and ctx.wildcard():
\* it answers with what it read, or returns the error of ctx.param.
CallReader(key, way) ==
    /\ calls # <<>>
    /\ Top.op = "call"
    /\ Top.endpoint.kind = "endpoint"
    /\ LET p == Context_param(context.params, key)
           w == Context_wildcard(context.params)
           same == [context |-> context, result |-> p]
           rest == [context |-> context, result |-> IF w.some THEN Some(w.rest) ELSE None]
       IN  /\ history' = history \o <<Call("param", key, Some(way), same, FALSE),
                                      Call("wildcard", "", None, rest, FALSE)>>
           /\ response' = Next_run_result(Read(p, way, Top.endpoint))
    /\ trace' = Append(trace, Called(Top.endpoint))
    /\ calls' = Returning
    /\ UNCHANGED <<context, router, crashed, request, selection, first_selection, in_flight,
                   again, echoed, middleware, config, build, builder_vars, serve_vars,
                   returned, listener_vars>>

Pat_x == <<"/", ":x">>
Pat_y == <<"/", ":y">>
Pat_xStar == <<"/", ":x", "/", "*">>
Pat_bStar == <<"/", "b", "/", "*">>
Pat_by == <<"/", "b", "/", ":y">>

\* The routes of the nested server: one set for each configuration.
InnerRoutes ==
    {<<Pat_x>>, <<Pat_y>>, <<PathB>>, <<Pat_bStar>>, <<Pat_xStar>>, <<PathB, Pat_y>>}

\* A configuration: a flat server, or one with a server nested at `/:x`; the
\* global middleware is none, a TestMiddleware, or in envoy_http the one that
\* fills the store.
ParamConfigs ==
    {[shape |-> "flat", build |-> b, global |-> g, route |-> <<>>, inner |-> <<>>] :
        b \in {"envoy", "envoy_http"}, g \in {<<>>, <<Mw(2)>>}}
    \cup
    {[shape |-> "nested", build |-> x[1], global |-> x[2], route |-> r, inner |-> i] :
        x \in ({"envoy", "envoy_http"} \X {<<>>, <<Mw(2)>>})
                  \cup {<<"envoy_http", <<StoreMw>>>>},
        r \in {<<>>, <<Mw(3)>>},
        i \in InnerRoutes}

RECURSIVE Gets(_)
Gets(patterns) ==
    IF patterns = <<>> THEN <<>>
    ELSE <<Statement(Head(patterns), <<>>, "GET", EndpointOf("GET", Head(patterns)))>>
             \o Gets(Tail(patterns))

\* app.at("/:x").get(ep); app.at("/a/*").get(ep); app.at("/b/:y").get(ep)
ParamFlatApp(cfg) ==
    Configure(Server_with_all(Server_new, cfg.global), Gets(<<Pat_x, Pat_aStar, Pat_by>>))

\* inner.at(pattern).get(ep) for each pattern;
\* outer.at("/:x").with(route...).nest(inner); outer.at("/").get(ep)
ParamNestedApp(cfg) ==
    Configure(Server_with_all(Server_new, cfg.global),
              <<Statement(Pat_x, cfg.route, "nest", Configure(Server_new, Gets(cfg.inner))),
                Statement(Root, <<>>, "GET", EndpointOf("GET", Root))>>)

ParamApp(cfg) == IF cfg.shape = "flat" THEN ParamFlatApp(cfg) ELSE ParamNestedApp(cfg)

ParamPaths ==
    {Root, PathA, PathAB, <<"/", "b", "/", "a">>, <<"/", "a", "/", "b", "/", "a">>}

ParamKeys == {"x", "y"}

InitParams ==
    /\ \E cfg \in ParamConfigs :
           LET app == ParamApp(cfg) IN
               /\ router = app.router
               /\ middleware = app.middleware
               /\ build = cfg.build
               /\ config = cfg
    /\ builders = <<>>
    /\ log = <<>>
    /\ ServeIdle
    /\ crashed = FALSE
    /\ request = NoRequest
    /\ selection = NoSelection
    /\ first_selection = NoSelection
    /\ in_flight = 0
    /\ again = FALSE
    /\ echoed = NoEcho
    /\ context = NoContext
    /\ calls = <<>>
    /\ trace = <<>>
    /\ response = NoResponse

NextParams ==
    \/ \E p \in ParamPaths : Dispatch("GET", p, FALSE)
    \/ Handle
    \/ HandleReturn
    \/ CallHandler
    \/ \E key \in ParamKeys, way \in {Propagate, Default} : CallReader(key, way)
    \/ CallMiddlewareEndpoint
    \/ CallStripPrefix
    \/ CallServer
    \/ Finish

SpecParams == InitParams /\ [][NextParams]_vars

----------------------------------------------------------------------------
(* What the handlers read *)

\* The handler's calls of ctx.param and ctx.wildcard.
ParamRead == history[1]
WildcardRead == history[2]
HasRead == Len(history) = 2

\* The names the captures bind.
Names(captures) == {captures.params[i].name : i \in 1..Len(captures.params)}

\* The captures of the stack that bind the name, by their position.
Binding(key) == {k \in 1..Len(context.params) : key \in Names(context.params[k])}

\* The handler runs in the nested server: the stack has the captures of the
\* outer router and those of the nested one.
InNested == Len(context.params) = 2

\* C25: ctx.param(name) gives the binding of the captures pushed last among
\* those that bind the name.  In a handler of a nested server, a name bound by
\* the outer and the nested router reads as the nested router bound it, and a
\* name bound by the outer router alone reads as the outer router bound it.
C25_InnermostBindingFirst ==
    HasRead =>
        LET key == ParamRead.type
            B == Binding(key)
        IN  /\ B = {} => ParamRead.result = None
            /\ B # {} =>
                   LET k == CHOOSE i \in B : \A j \in B : j <= i IN
                       ParamRead.result = Captures_get(context.params[k], key)
            /\ (InNested /\ key \in Names(context.params[2])) =>
                   ParamRead.result = Captures_get(context.params[2], key)
            /\ (InNested /\ key \in Names(context.params[1]) \ Names(context.params[2])) =>
                   ParamRead.result = Captures_get(selection.params, key)
            /\ (InNested /\ build = "envoy" /\ config.inner = <<Pat_x>>) =>
                   /\ key = "x" => ParamRead.result = Some(ReqSegs[2])
                   /\ ReqSegs[1] # ReqSegs[2] =>
                          ParamRead.result # Captures_get(selection.params, "x")
            /\ (InNested /\ build = "envoy" /\ config.inner = <<Pat_y>>) =>
                   /\ key = "x" => ParamRead.result = Some(ReqSegs[1])
                   /\ key = "y" => ParamRead.result = Some(ReqSegs[2])

\* GET /a/b with `/:x` nested at `/:x`: the handler read x as b, the binding of
\* the nested router, not a, the binding of the outer one.
C25_Witness ==
    /\ HasRead
    /\ config.inner = <<Pat_x>>
    /\ request.path = PathAB
    /\ Captures_get(context.params[1], "x") = Some("a")
    /\ Captures_get(context.params[2], "x") = Some("b")
    /\ ParamRead.type = "x"
    /\ ParamRead.result = Some("b")

\* GET /a/b with `/:y` nested at `/:x`: the handler read x as a, the binding of
\* the outer router.
C25_WitnessOuter ==
    /\ HasRead
    /\ config.inner = <<Pat_y>>
    /\ request.path = PathAB
    /\ "x" \notin Names(context.params[2])
    /\ ParamRead.type = "x"
    /\ ParamRead.result = Some("a")

\* C26: ctx.param on a name that no captures of the stack bind returns its
\* error to the handler: nothing panics and the Context is as it was.  A
\* handler that goes on with a default answers 200; when the handler returns
\* the error, the dispatch ends with a response of status 500.
C26_MissingParamRecoverable ==
    /\ HasRead =>
           /\ ParamRead.result = None <=> Binding(ParamRead.type) = {}
           /\ ~ParamRead.panicked
           /\ ParamRead.after = ParamRead.before
           /\ ~crashed
    /\ (HasRead /\ ParamRead.result = None /\ Dispatched) =>
           /\ ParamRead.arg = Some(Default) =>
                  response.outcome = "response" /\ response.status = 200
           /\ ParamRead.arg = Some(Propagate) =>
                  /\ response.error = Error_new(500, "param not found")
                  /\ Server_respond(response).status = 500

\* GET / on the route `/`: the handler returned the error of ctx.param("x")
\* and the dispatch ended with 500.
C26_Witness ==
    /\ HasRead
    /\ Dispatched
    /\ request.path = Root
    /\ ParamRead.type = "x"
    /\ ParamRead.result = None
    /\ ParamRead.arg = Some(Propagate)
    /\ response.status = 500

\* The same request with a handler that falls back to a default: 200.
C26_WitnessDefault ==
    /\ HasRead
    /\ Dispatched
    /\ request.path = Root
    /\ ParamRead.result = None
    /\ ParamRead.arg = Some(Default)
    /\ response.status = 200

\* The route that matched the handler: the pattern it was registered at.
HandlerPattern == Segments(response.ep.path)
HandlerHasWildcard ==
    HandlerPattern # <<>> /\ HandlerPattern[Len(HandlerPattern)] = STAR

\* The remainder the handler's own route captured.
OwnCaptures == context.params[Len(context.params)]

\* C27: ctx.wildcard() gives the remainder the handler's route captured, and
\* none when the pattern of that route has no wildcard, also in a handler of a
\* nested server.
C27_Original ==
    HasRead =>
        /\ HandlerHasWildcard =>
               /\ OwnCaptures.wildcard.some
               /\ WildcardRead.result = Some(OwnCaptures.wildcard.rest)
        /\ ~HandlerHasWildcard => WildcardRead.result = None

\* The claim for the handlers of the server that got the request: their
\* Context has the captures of one route.
C27_OuterHandlers ==
    (HasRead /\ ~InNested) => C27_Original

\* GET /a/b/a on the route `/a/*`: the handler read the remainder b/a.
C27_OuterHandlersWitness ==
    /\ HasRead
    /\ ~InNested
    /\ response.ep.path = Pat_aStar
    /\ request.path = <<"/", "a", "/", "b", "/", "a">>
    /\ WildcardRead.result = Some(<<"b", "/", "a">>)

\* What the code gives a handler of a nested server: the remainder of its own
\* route when it has a wildcard, else the remainder the nest point captured.
C27_NestedHandlers ==
    (HasRead /\ InNested) =>
        /\ HandlerHasWildcard => WildcardRead.result = Some(OwnCaptures.wildcard.rest)
        /\ ~HandlerHasWildcard =>
               /\ WildcardRead.result = Some(selection.params.wildcard.rest)
               /\ WildcardRead.result # None

\* GET /a/b with `/b` nested at `/:x`: the handler of `/b` read the remainder b.
C27_NestedHandlersWitness ==
    /\ HasRead
    /\ InNested
    /\ response.ep.path = PathB
    /\ request.path = PathAB
    /\ WildcardRead.result = Some(<<"b">>)

----------------------------------------------------------------------------
(* A server, its clones, its listener and the dispatches that run beside one
   another *)

MaxHandles == 2     \* Server handles the program holds
MaxDispatches == 2  \* Server::respond calls in flight
MaxGlobal == 1      \* middleware given with Server::with

\* Arc::strong_count of Server.router and of Server.middleware: Server::clone
\* clones both, so every handle and every dispatch in flight counts once.
Arc_strong_count == handles.user + (IF handles.listener THEN 1 ELSE 0) + in_flight

\* A variant of Arc::get_mut: the value is handed out also while it is shared.
Arc_get_mut_unchecked == TRUE

\* Arc::get_mut gives the value only to the one handle of it.
Arc_get_mut == Arc_strong_count = 1

\* The dispatch that runs.
Running ==
    [request |-> request, selection |-> selection, first_selection |-> first_selection,
     context |-> context, calls |-> calls, trace |-> trace, response |-> response,
     seen |-> seen]

\* The dispatch takes its turn: it is the one that runs.
Resume(d) ==
    /\ request' = d.request
    /\ selection' = d.selection
    /\ first_selection' = d.first_selection
    /\ context' = d.context
    /\ calls' = d.calls
    /\ trace' = d.trace
    /\ response' = d.response
    /\ seen' = d.seen

\* The nested server of the application: inner.at("/").get(ep);
\* inner.at("/b").get(ep)
ServeInner == Configure(Server_new, Gets(<<Root, PathB>>))

\* The server the program starts with: app.at("/c").get(ep)
ServeApp == Configure(Server_new, Gets(<<PathC>>))

\* The statement the program makes on its server later: app.at("/a").nest(inner)
ServeStatements == {Statement(PathA, <<>>, "nest", ServeInner)}

ServePaths == {PathC, PathAB}

\* The last call of Server::at or Server::with, kept in log: whether it got the table, whether a
\* listener was bound or a request dispatched before it, how many other
\* handles of the table were alive, and whether the table or the list changed.
Attempt(op, ok, changed) ==
    [op |-> op, ok |-> ok, serving |-> serving, others |-> Arc_strong_count - 1,
     listening |-> handles.listener, dispatching |-> in_flight, changed |-> changed]

serve_frame ==
    <<request, selection, first_selection, in_flight, again, echoed, config, build,
      context, calls, trace, response, builders, history, handles, serving, seen, parked,
      returned, listener_vars>>

\* Server::at on a handle the program holds, followed by the Route's
\* registration: the expect on Arc::get_mut panics while the router is
\* shared, and Router::add panics on a route the table refuses.
ServeAt(st) ==
    /\ ~crashed
    /\ handles.user >= 1
    /\ LET self == Route_with_all(Route_new(st.path), st.middleware)
           res == IF st.method = "nest"
                  THEN Route_nest(router, self, st.ep)
                  ELSE Route_method(router, self, st.method, st.ep)
           ok == Arc_get_mut /\ res.ok
       IN  /\ router' = IF ok THEN res.router ELSE router
           /\ crashed' = ~ok
           /\ log' = <<Attempt("at", Arc_get_mut, ok /\ res.router # router)>>
    /\ UNCHANGED <<middleware, serve_frame>>

\* Server::with on a handle the program holds: the expect on Arc::get_mut
\* panics while the middleware list is shared.
ServeWith ==
    /\ ~crashed
    /\ handles.user >= 1
    /\ Len(middleware) < MaxGlobal
    /\ LET m == IF build = "envoy_http" THEN StoreMw ELSE Mw(2) IN
           /\ middleware' = IF Arc_get_mut THEN Append(middleware, m) ELSE middleware
           /\ crashed' = ~Arc_get_mut
           /\ log' = <<Attempt("with", Arc_get_mut, Arc_get_mut)>>
    /\ UNCHANGED <<router, serve_frame>>

handle_frame ==
    <<router, crashed, request, selection, first_selection, in_flight, again, echoed,
      chain_vars, builder_vars, history, seen, parked,
                   returned, listener_vars>>

\* Server::clone by the program.
CloneServer ==
    /\ ~crashed
    /\ handles.user \in 1..(MaxHandles - 1)
    /\ handles' = [handles EXCEPT !.user = @ + 1]
    /\ UNCHANGED <<serving, handle_frame>>

\* The program drops a handle; the last one only when a listener has one.
DropServer ==
    /\ ~crashed
    /\ handles.user > (IF handles.listener THEN 0 ELSE 1)
    /\ handles' = [handles EXCEPT !.user = @ - 1]
    /\ UNCHANGED <<serving, handle_frame>>

\* Server::listen or Server::bind: the handle is moved into the listener.
Listen ==
    /\ ~crashed
    /\ handles.user >= 1
    /\ ~handles.listener
    /\ handles' = [user |-> handles.user - 1, listener |-> TRUE]
    /\ serving' = TRUE
    /\ UNCHANGED handle_frame

\* Listener::accept returns with an error and the listener is dropped with its
\* handle; the program goes on if it holds a handle itself.
ListenerStops ==
    /\ ~crashed
    /\ handles.listener
    /\ handles.user >= 1
    /\ handles' = [handles EXCEPT !.listener = FALSE]
    /\ UNCHANGED <<serving, handle_frame>>

\* Server::respond up to the first call of the chain, on a handle of the
\* program or of the listener, while other dispatches may be in flight: the
\* server is cloned, the route resolved, and the Context made.
Serve(method, path, auth) ==
    /\ ~crashed
    /\ handles.user >= 1 \/ handles.listener
    /\ in_flight < MaxDispatches
    /\ LET sel == route(router, path, method)
           req == [method |-> method, path |-> path, auth |-> auth]
       IN  /\ request' = [method |-> method, path |-> path]
           /\ selection' = sel
           /\ first_selection' = sel
           /\ context' = Context_new(req, <<sel.params>>)
           /\ calls' = <<Next_run(Next_new(sel.endpoint, middleware))>>
    /\ trace' = <<>>
    /\ response' = NoResponse
    /\ seen' = [router |-> router, middleware |-> middleware]
    /\ parked' = IF in_flight = 0 THEN parked ELSE parked (+) SetToBag({Running})
    /\ in_flight' = in_flight + 1
    /\ serving' = TRUE
    /\ UNCHANGED <<router, crashed, again, echoed, middleware, config, build, builder_vars,
                   history, handles,
                   returned, listener_vars>>

\* The dispatch that runs waits and another one takes its turn.
Switch ==
    /\ \E d \in BagToSet(parked) :
           /\ Resume(d)
           /\ parked' = (parked (-) SetToBag({d})) (+) SetToBag({Running})
    /\ UNCHANGED <<router, crashed, in_flight, again, echoed, middleware, config, build,
                   builder_vars, history, handles, serving,
                   returned, listener_vars>>

\* Server::respond returns the response: its Context and its clone of the
\* server are dropped, and a dispatch that waited takes its turn.
Served ==
    /\ in_flight >= 1
    /\ calls = <<>>
    /\ response.outcome # "none"
    /\ in_flight' = in_flight - 1
    /\ IF parked = EmptyBag
       THEN /\ Resume([request |-> NoRequest, selection |-> NoSelection,
                       first_selection |-> NoSelection, context |-> NoContext,
                       calls |-> <<>>, trace |-> <<>>, response |-> NoResponse,
                       seen |-> NoTable])
            /\ UNCHANGED parked
       ELSE LET d == CHOOSE x \in BagToSet(parked) : TRUE IN
                /\ Resume(d)
                /\ parked' = parked (-) SetToBag({d})
    /\ UNCHANGED <<router, crashed, again, echoed, middleware, config, build,
                   builder_vars, history, handles, serving,
                   returned, listener_vars>>

InitServe ==
    /\ router = ServeApp.router
    /\ crashed = FALSE
    /\ request = NoRequest
    /\ selection = NoSelection
    /\ first_selection = NoSelection
    /\ in_flight = 0
    /\ again = FALSE
    /\ echoed = NoEcho
    /\ middleware = <<>>
    /\ config = NoConfig
    /\ build \in {"envoy", "envoy_http"}
    /\ context = NoContext
    /\ calls = <<>>
    /\ trace = <<>>
    /\ response = NoResponse
    /\ builders = <<>>
    /\ log = <<>>
    /\ ServeIdle

NextServe ==
    \/ \E st \in ServeStatements : ServeAt(st)
    \/ ServeWith
    \/ CloneServer
    \/ DropServer
    \/ Listen
    \/ ListenerStops
    \/ \E p \in ServePaths : Serve("GET", p, FALSE)
    \/ Switch
    \/ Handle
    \/ HandleReturn
    \/ CallHandler
    \/ CallStripPrefix
    \/ CallServer
    \/ Served

SpecServe == InitServe /\ [][NextServe]_vars

----------------------------------------------------------------------------
(* Registration and dispatch over shared handles *)

\* The calls of Server::at and Server::with made so far.
Attempts == 1..Len(log)

\* C28: once a listener was bound or a request dispatched, every call of
\* Server::at and Server::with panics and leaves the route table and the
\* middleware list as they were, also after the dispatch has returned.
C28_Original ==
    \A i \in Attempts :
        log[i].serving => (~log[i].ok /\ ~log[i].changed /\ crashed)

\* What the code gives: every call of Server::at and Server::with made while a
\* listener is bound or a dispatch is in flight panics and changes nothing.
C28_WhileServing ==
    \A i \in Attempts :
        (log[i].listening \/ log[i].dispatching > 0) =>
            (~log[i].ok /\ ~log[i].changed /\ crashed)

\* A dispatch was in flight and a call of Server::at panicked.
C28_WhileServingWitness ==
    /\ crashed
    /\ in_flight >= 1
    /\ log # <<>>
    /\ log[Len(log)].op = "at"
    /\ log[Len(log)].dispatching >= 1
    /\ ~log[Len(log)].ok

\* A request was dispatched and answered, and a route was registered after it
\* on the one handle of the server.
C28_AfterReturn ==
    /\ ~crashed
    /\ in_flight = 0
    /\ \E i \in Attempts :
           /\ log[i].serving
           /\ log[i].op = "at"
           /\ log[i].ok
           /\ log[i].changed

\* The dispatches in flight.
InFlight ==
    IF in_flight = 0 THEN {} ELSE {Running} \cup BagToSet(parked)

\* C29: the route table and the middleware list are not changed while they
\* are shared.  A call of Server::at or Server::with gets the table only when
\* no other handle of it is alive, of the program, of a listener or of a
\* dispatch in flight, and the call changes nothing otherwise; so the table and
\* the list are, for every dispatch in flight, the ones it resolved its
\* request with.
C29_NotMutatedWhileShared ==
    /\ \A i \in Attempts :
           /\ log[i].ok => (log[i].others = 0 /\ ~log[i].listening /\ log[i].dispatching = 0)
           /\ log[i].changed => log[i].ok
           /\ ~log[i].ok => (crashed /\ i = Len(log))
    /\ in_flight = BagCardinality(parked) + (IF in_flight = 0 THEN 0 ELSE 1)
    /\ \A d \in InFlight :
           /\ d.seen = [router |-> router, middleware |-> middleware]
           /\ d.first_selection = route(router, d.request.path, d.request.method)

\* A second handle of a server with a route called Server::at while a dispatch
\* was in flight: the call panicked and the table is the one the dispatch saw.
C29_Witness ==
    /\ crashed
    /\ in_flight >= 1
    /\ router # NewRouter
    /\ seen = [router |-> router, middleware |-> middleware]
    /\ log[Len(log)].op = "at"
    /\ ~log[Len(log)].ok
    /\ log[Len(log)].dispatching >= 1
    /\ log[Len(log)].others >= 2

\* The path the dispatch's own StripPrefixEndpoint leaves in its request.
OwnRewrite(d) ==
    LET rest == d.selection.params.wildcard.rest IN
    IF build = "envoy" THEN set_path(rest) ELSE Uri_from_str(rest).path

\* The dispatch selected the nested server.
Nests(d) == Unwrapped(d.selection.endpoint).kind = "StripPrefixEndpoint"

\* The middleware that fills the store has started on the dispatch.
Filled(d) == \E i \in 1..Len(d.trace) : d.trace[i] = Pre(StoreMw)

\* The Context of the dispatch holds what the dispatch itself put there.
Own(d) ==
    /\ d.context.req.method = d.request.method
    /\ d.context.req.path \in {d.request.path} \cup (IF Nests(d) THEN {OwnRewrite(d)} ELSE {})
    /\ Len(d.context.params) \in {1, 2}
    /\ d.context.params[1] = d.selection.params
    /\ Len(d.context.params) = 2 =>
           /\ Nests(d)
           /\ d.context.params[2] =
                  route(Unwrapped(d.selection.endpoint).endpoint.router,
                        IF build = "envoy" THEN OwnRewrite(d) ELSE d.request.path,
                        d.request.method).params
    /\ DOMAIN d.context.ctx = (IF Filled(d) THEN {"Uri", "Method"} ELSE {})
    /\ Filled(d) =>
           /\ d.context.ctx["Uri"] = d.request.path
           /\ d.context.ctx["Method"] = d.request.method

\* C30: every dispatch has a Context of its own.  It starts with an empty
\* store and the captures of its own request's route, and whatever dispatches
\* run beside it, its store holds only the values its own middleware put
\* there, its capture stack only the captures of its own routing passes, and
\* its request only its own path or its own rewrite of it.
C30_ContextPerDispatch ==
    \A d \in InFlight :
        /\ Own(d)
        /\ (d.trace = <<>> /\ d.calls = <<Next_run(Next_new(d.selection.endpoint,
                                                             d.seen.middleware))>>) =>
               /\ DOMAIN d.context.ctx = {}
               /\ d.context.params = <<d.selection.params>>

\* Two dispatches in flight in envoy_http, each with the Uri of its own
\* request in its store.
C30_Witness ==
    /\ in_flight = 2
    /\ request.path = PathAB
    /\ Filled(Running)
    /\ context.ctx["Uri"] = PathAB
    /\ \E d \in BagToSet(parked) :
           /\ d.request.path = PathC
           /\ Filled(d)
           /\ d.context.ctx["Uri"] = PathC

\* Two dispatches in flight in envoy: the one to the nested server has two
\* capture sets and the rewritten path /b, the other one capture set and its
\* own path.
C30_WitnessNested ==
    /\ in_flight = 2
    /\ build = "envoy"
    /\ request.path = PathAB
    /\ Len(context.params) = 2
    /\ context.req.path = PathB
    /\ \E d \in BagToSet(parked) :
           /\ d.request.path = PathC
           /\ d.context.req.path = PathC
           /\ Len(d.context.params) = 1
           /\ d.trace # <<>>

----------------------------------------------------------------------------
(* Handlers and middleware that return errors *)

\* A configuration: a flat server, or one with a server nested at `/:x`, with
\* TestMiddleware, the failing middleware and, in envoy_http, the middleware
\* that fills the store.
ErrConfigs ==
    {[shape |-> "flat", build |-> b, global |-> g, route |-> <<>>, inner |-> <<>>] :
        b \in {"envoy", "envoy_http"}, g \in {<<>>, <<Mw(2)>>, <<Mw(2), FailMw>>}}
    \cup
    {[shape |-> "nested", build |-> x[1], global |-> x[2], route |-> r, inner |-> i] :
        x \in ({"envoy", "envoy_http"} \X {<<>>, <<Mw(2)>>})
                  \cup {<<"envoy_http", <<StoreMw>>>>, <<"envoy_http", <<Mw(2), StoreMw>>>>},
        r \in {<<>>, <<Mw(3)>>, <<FailMw>>},
        i \in {<<Pat_y>>, <<PathB>>}}

ErrMethods == {"GET", "POST"}

ErrPaths ==
    {Root, PathA, PathB, <<"/", "3">>, PathAB, <<"/", "b", "/", "3">>,
     <<"/", "a", "/", "3">>}

InitErr ==
    /\ \E cfg \in ErrConfigs :
           LET app == ParamApp(cfg) IN
               /\ router = app.router
               /\ middleware = app.middleware
               /\ build = cfg.build
               /\ config = cfg
    /\ builders = <<>>
    /\ log = <<>>
    /\ ServeIdle
    /\ crashed = FALSE
    /\ request = NoRequest
    /\ selection = NoSelection
    /\ first_selection = NoSelection
    /\ in_flight = 0
    /\ again = FALSE
    /\ echoed = NoEcho
    /\ context = NoContext
    /\ calls = <<>>
    /\ trace = <<>>
    /\ response = NoResponse

NextErr ==
    \/ \E m \in ErrMethods, p \in ErrPaths : Dispatch(m, p, FALSE)
    \/ Handle
    \/ HandleReturn
    \/ CallHandler
    \/ \E key \in ParamKeys, way \in {Propagate, Default, Parse} : CallReader(key, way)
    \/ CallMiddlewareEndpoint
    \/ CallStripPrefix
    \/ CallServer
    \/ Finish

SpecErr == InitErr /\ [][NextErr]_vars

----------------------------------------------------------------------------
(* What becomes of an error of the chain *)

\* The error the result of the chain carries.
Carried == CHOOSE e \in response.error : TRUE

\* Server::respond returns for a chain that ended with an error.
ReturnsError == in_flight = 1 /\ in_flight' = 0 /\ response.error # {}

\* C31: when the chain ends with an error of status S and message M,
\* Server::respond returns a response of status S with the body M; the error
\* of status 400 of add_one gives a response of status 400.
C31_Original ==
    [][ReturnsError =>
           /\ returned'.result = "Ok"
           /\ returned'.status = Carried.status
           /\ returned'.body = Carried.message]_vars

\* What the code gives: the body is the message of the error in both crates,
\* and the status is the error's in envoy and 500 in envoy_http.
C31_StatusByCrate ==
    [][ReturnsError =>
           /\ returned'.result = "Ok"
           /\ returned'.body = Carried.message
           /\ returned'.status = (IF build = "envoy" THEN Carried.status ELSE 500)]_vars

\* GET /a in envoy_http with a handler that parses the capture as a number:
\* the error has status 400 and the response returned has status 500.
C31_EnvoyHttpWitness ==
    /\ build = "envoy_http"
    /\ in_flight = 0
    /\ returned.result = "Ok"
    /\ returned.status = 500
    /\ returned.body = "invalid digit found in string"

\* The same in envoy: the response returned has status 400.
C31_EnvoyWitness ==
    /\ build = "envoy"
    /\ in_flight = 0
    /\ returned.result = "Ok"
    /\ returned.status = 400
    /\ returned.body = "invalid digit found in string"

\* C32: an error returned by the endpoint or by a middleware is an error
\* result of next.run for every middleware around it, and is still an error
\* when the chain has returned to Server::respond: no step of the chain makes
\* a response of it.
C32_Original ==
    (in_flight = 1 /\ response.error # {}) =>
        /\ (calls # <<>> /\ Top.op = "await") => response.outcome = "error"
        /\ calls = <<>> => response.outcome = "error"

\* What the code gives: in envoy_http the error stays an error up to
\* Server::respond, and in envoy Next::run has made a response of it, with the
\* error's status, before any middleware or Server::respond gets it.
C32_ByCrate ==
    (in_flight = 1 /\ response.error # {}) =>
        /\ response.outcome = (IF build = "envoy" THEN "response" ELSE "error")
        /\ response.status = Carried.status
        /\ response.body = Carried.message

\* In envoy a TestMiddleware waits for next.run, the handler below it has
\* returned an error, and what next.run gives the middleware is a response.
C32_EnvoyWitness ==
    /\ build = "envoy"
    /\ calls # <<>>
    /\ Top.op = "await"
    /\ Top.m = Mw(2)
    /\ response.error = Error_new(400, "invalid digit found in string")
    /\ response.outcome = "response"

\* C33: every call of Server::respond gives its caller a response, whatever
\* the request and whatever the chain does: no panic and no error leaves it.
C33_Original ==
    /\ returned.result \in {"none", "Ok"}
    /\ response.outcome # "panic"

\* What the code gives: in envoy every call of Server::respond returns a
\* response; in envoy_http it does unless the request reaches a nested server
\* with no Uri and Method in the store of the Context.
C33_ExceptNestedBorrow ==
    /\ returned.result \in {"none", "Ok", "panic"}
    /\ returned.result = "panic" =>
           /\ build = "envoy_http"
           /\ config.shape = "nested"
           /\ StoreMw \notin {config.global[i] : i \in 1..Len(config.global)}

\* A call of Server::respond in envoy_http ended in a panic.
C33_PanicWitness ==
    /\ build = "envoy_http"
    /\ in_flight = 0
    /\ returned.result = "panic"

\* Calls of Server::respond that returned a response for a request without a
\* route and for a handler's error in a nested server.
C33_ResponseWitness ==
    /\ in_flight = 0
    /\ returned.result = "Ok"
    /\ returned.status \in {404, 405}

----------------------------------------------------------------------------
(* The paths of the builders Route::at makes *)

\* The paths given to Server::at: "/a", "/a/", "a" and "/".
AtRoots == {PathA, <<"/", "a", "/">>, <<"a">>, Root}

\* The subpaths given to Route::at: "/", "b", "/b", "b/" and "/b/".
AtSubs == {Root, <<"b">>, PathB, <<"b", "/">>, <<"/", "b", "/">>}

NextAt ==
    \/ \E p \in AtRoots : ServerAt(p)
    \/ \E p \in AtSubs : RouteAt(p)
    \/ RouteDrop

SpecAt == InitBuild /\ [][NextAt]_vars

EndsWithSlash(s) == s # <<>> /\ s[Len(s)] = SLASH
StartsWithSlash(s) == s # <<>> /\ Head(s) = SLASH

\* The two strings joined with one "/" between them.
JoinedOnce(p, sub) ==
    (IF EndsWithSlash(p) THEN SubSeq(p, 1, Len(p) - 1) ELSE p)
        \o <<SLASH>>
        \o (IF StartsWithSlash(sub) THEN Tail(sub) ELSE sub)

\* The path of the builder the step has made.
Made_path == builders'[Len(builders')].route.path

\* C34: Route::at gives the builder the current path and the subpath joined
\* with exactly one "/", whether or not the current path ends with one and
\* the subpath starts with one; at("/") gives the current path.
C34_Original ==
    [][\A sub \in AtSubs :
           RouteAt(sub) =>
               Made_path = (IF sub = Root THEN Current.route.path
                            ELSE JoinedOnce(Current.route.path, sub))]_vars

\* What the code gives: the paths are joined with one "/" unless the current
\* path ends with "/" and the subpath starts with one; then both are kept.
C34_UnlessBothSlashes ==
    [][\A sub \in AtSubs :
           RouteAt(sub) =>
               Made_path =
                   (IF sub = Root THEN Current.route.path
                    ELSE IF EndsWithSlash(Current.route.path) /\ StartsWithSlash(sub)
                    THEN Current.route.path \o sub
                    ELSE JoinedOnce(Current.route.path, sub))]_vars

\* app.at("/a/").at("/b") has the path "/a//b".
C34_DoubleSlashWitness ==
    /\ Len(builders) = 2
    /\ builders[1].route.path = <<"/", "a", "/">>
    /\ builders[2].route.path = <<"/", "a", "/", "/", "b">>

\* app.at("/a").at("b") and app.at("/a").at("/b") have the path "/a/b".
C34_JoinedWitness ==
    /\ Len(builders) = 2
    /\ builders[1].route.path = PathA
    /\ builders[2].route.path = PathAB

----------------------------------------------------------------------------
(* Registrations the router refuses *)

\* The patterns registered: "/a", "/:x", "/:y" (as "/:x" but for the name of
\* the capture), "/a/*" and the malformed "/*/a".
RegPatterns == {PathA, Pat_x, Pat_y, Pat_aStar, <<"/", "*", "/", "a">>}

RegMethods == {"GET", "POST"}

RegPaths == {Root, PathA, PathB}

NextReg ==
    \/ \E p \in RegPatterns, m \in RegMethods : Register(p, m)
    \/ \E p \in RegPatterns : RegisterAll(p)
    \/ \E m \in RegMethods, p \in RegPaths : Respond(m, p)
    \/ Returned

SpecReg == Init /\ [][NextReg]_vars

\* The pattern is malformed, or the table holds a pattern that is the same
\* but for the names of its captures.
Refused(table, pattern) ==
    \/ ~Compile(pattern).ok
    \/ \E e \in table : Shape(e.spec) = Shape(Compile(pattern).spec)

\* The tables of the router.
Tables(r) == {r.all_method_router} \cup {r.method_map[m] : m \in DOMAIN r.method_map}

\* No table holds a malformed pattern or two patterns that differ in the names
\* of their captures only.
Sound(r) ==
    \A t \in Tables(r) :
        /\ \A e \in t : Compile(e.endpoint.path).ok
        /\ \A e1, e2 \in t : Shape(e1.spec) = Shape(e2.spec) => e1 = e2

\* C35: the registration of a malformed pattern, or of a pattern that a
\* pattern of the same table equals but for the names of its captures, panics
\* in the registration call and leaves the router as it was; a request is
\* dispatched only while no registration has panicked, and the router it is
\* resolved against holds no such pattern.
C35_FailsAtRegistration ==
    [][/\ \A p \in RegPatterns :
              /\ \A m \in RegMethods :
                     (Register(p, m) /\ Refused(TableOf(m), p))
                         => (crashed' /\ router' = router /\ in_flight' = 0)
              /\ (RegisterAll(p) /\ Refused(router.all_method_router, p))
                     => (crashed' /\ router' = router /\ in_flight' = 0)
       /\ in_flight' > in_flight => (~crashed /\ Sound(router) /\ Sound(router'))
       /\ (crashed' /\ ~crashed) => in_flight = 0]_vars

\* app.at("/:x").get(h) was followed by a registration that panicked.
C35_Witness ==
    /\ crashed
    /\ in_flight = 0
    /\ Registered(router) = 1
    /\ \E e \in TableOf("GET") : e.endpoint.path = Pat_x

\* The first registration was of the malformed pattern and panicked.
C35_MalformedWitness ==
    /\ crashed
    /\ Registered(router) = 0

----------------------------------------------------------------------------
(* LogMiddleware on an outer and on a nested server *)

\* The configurations: instances of LogMiddleware among the middleware of the
\* outer server, of the route /a, of the inner server and of its route /b; on
\* the outer server auth_middleware may come first, and the inner route may
\* have a middleware that fails.
LogConfigs ==
    {[shape |-> sh, build |-> "envoy", overlap |-> <<>>,
      global |-> g, route |-> r, inner_global |-> ig, inner_route |-> ir] :
        sh \in {"nested"},
        g \in {<<>>, <<LogMw(1)>>, <<Mw(1), LogMw(1)>>},
        r \in {<<>>, <<LogMw(2)>>},
        ig \in {<<>>, <<LogMw(3)>>},
        ir \in {<<>>, <<LogMw(4)>>, <<FailMw>>}}
    \cup
    {[shape |-> "flat", build |-> "envoy", overlap |-> <<>>,
      global |-> g, route |-> r, inner_global |-> <<>>, inner_route |-> <<>>] :
        g \in {<<>>, <<LogMw(1)>>, <<LogMw(1), LogMw(2)>>},
        r \in {<<>>, <<LogMw(3)>>}}

LogPaths == {PathA, PathAB, PathB}

InitLog ==
    /\ \E cfg \in LogConfigs :
           LET app == App(cfg) IN
               /\ router = app.router
               /\ middleware = app.middleware
               /\ build = cfg.build
               /\ config = cfg
    /\ builders = <<>>
    /\ log = <<>>
    /\ ServeIdle
    /\ crashed = FALSE
    /\ request = NoRequest
    /\ selection = NoSelection
    /\ first_selection = NoSelection
    /\ in_flight = 0
    /\ again = FALSE
    /\ echoed = NoEcho
    /\ context = NoContext
    /\ calls = <<>>
    /\ trace = <<>>
    /\ response = NoResponse

NextLog ==
    \/ \E m \in ChainMethods, p \in LogPaths, auth \in BOOLEAN : Dispatch(m, p, auth)
    \/ Handle
    \/ HandleReturn
    \/ CallHandler
    \/ CallMiddlewareEndpoint
    \/ CallStripPrefix
    \/ CallServer
    \/ Finish

SpecLog == InitLog /\ [][NextLog]_vars

\* The positions of the trace at which an instance of LogMiddleware starts on
\* the request, logs that the request was received, logs the response.
LogStarts == {i \in 1..Len(trace) : trace[i].ev = "pre" /\ trace[i].mw > MaxMw + 2}
LogReceived == {i \in 1..Len(trace) : trace[i].ev = Received}
LogSent == {i \in 1..Len(trace) : trace[i].ev \in {Sent(200), Sent(400), Sent(500)}}

\* C36: of the instances of LogMiddleware a request passes, on the outer and
\* on the nested server, the first marks the request and logs that it was
\* received, and logs the response it gets; every later instance finds the
\* mark and logs nothing, so a request is logged once.
C36_LogsOnce ==
    in_flight = 1 =>
        /\ Cardinality(LogReceived) <= 1
        /\ Cardinality(LogSent) <= 1
        /\ (Context_try_borrow(context, LogMiddlewareHasBeenRun) # None) = (LogStarts # {})
        /\ LogStarts = {} => (LogReceived = {} /\ LogSent = {})
        /\ LogStarts # {} =>
               LET first == CHOOSE i \in LogStarts : \A j \in LogStarts : i <= j IN
                   /\ LogReceived = {first + 1}
                   /\ trace[first + 1].mw = trace[first].mw
                   /\ \A i \in LogSent : trace[i].mw = trace[first].mw
                   /\ Dispatched => Cardinality(LogSent) = 1

\* A request has passed the instance of the outer server and the instance of
\* the nested server, and the chain has returned.
C36_Witness ==
    /\ Dispatched
    /\ config.shape = "nested"
    /\ \E i, j \in LogStarts :
           /\ trace[i].mw = LogMw(1).id
           /\ trace[j].mw = LogMw(3).id
    /\ Cardinality(LogReceived) = 1
    /\ Cardinality(LogSent) = 1

----------------------------------------------------------------------------
(* Listeners: FailoverListener and the accept loop of TcpListener *)

MaxListeners == 3  \* listeners added to a FailoverListener
MaxStreams == 2    \* connections an accept loop hands to handle_tcp

\* The addresses listeners are made of.
Addrs == {1, 2}

\* What the next item of listener.incoming() is: a connection, an error that
\* is_transient_error takes for transient, or another error.
Incoming == {"stream", "transient", "error"}

\* TcpListener::bind: it panics when it was called before; the server is kept,
\* the addresses are taken and bound, and a failure to bind is returned.
\* `bound` is whether net::TcpListener::bind succeeds.
TcpListener_bind(self, bound) ==
    IF self.server # None THEN [self |-> self, result |-> "panic"]
    ELSE IF self.listener # None
    THEN [self |-> [self EXCEPT !.server = Some("app")], result |-> "Ok"]
    ELSE IF self.addrs = None
    THEN [self |-> [self EXCEPT !.server = Some("app")], result |-> "panic"]
    ELSE IF bound
    THEN [self |-> [self EXCEPT !.server = Some("app"), !.addrs = None,
                                !.listener = self.addrs],
          result |-> "Ok"]
    ELSE [self |-> [self EXCEPT !.server = Some("app"), !.addrs = None],
          result |-> "Err"]

\* A variant of the loop of FailoverListener::bind: it goes on after a listener
\* was bound, so that the last listener that binds is recorded.
RECURSIVE FailoverListener_bind_last(_, _, _, _)
FailoverListener_bind_last(self, index, bound, tried) ==
    IF index > Len(self.listeners)
    THEN [self |-> self,
          result |-> IF self.index # None THEN "Ok" ELSE "AddrNotAvailable",
          tried |-> tried]
    ELSE IF self.listeners[index] = None
    THEN [self |-> self, result |-> "panic", tried |-> tried]
    ELSE LET listener == CHOOSE l \in self.listeners[index] : TRUE
             r == TcpListener_bind(listener, bound[index])
             kept == [self EXCEPT !.listeners[index] = Some(r.self)]
             now == Append(tried, [index |-> index, result |-> r.result])
         IN  CASE r.result = "panic" -> [self |-> kept, result |-> "panic", tried |-> now]
               [] r.result = "Ok" ->
                      FailoverListener_bind_last([kept EXCEPT !.index = Some(index)],
                                                 index + 1, bound, now)
               [] OTHER -> FailoverListener_bind_last(kept, index + 1, bound, now)

\* The loop of FailoverListener::bind from the listener at `index` on: the
\* listener is bound; on success its index is recorded and bind returns Ok, on
\* failure the next listener is tried; when none is left bind returns the error
\* AddrNotAvailable.  `tried` lists the listeners bind was called on.
RECURSIVE FailoverListener_bind(_, _, _, _)
FailoverListener_bind(self, index, bound, tried) ==
    IF index > Len(self.listeners)
    THEN [self |-> self, result |-> "AddrNotAvailable", tried |-> tried]
    ELSE IF self.listeners[index] = None
    THEN [self |-> self, result |-> "panic", tried |-> tried]
    ELSE LET listener == CHOOSE l \in self.listeners[index] : TRUE
             r == TcpListener_bind(listener, bound[index])
             kept == [self EXCEPT !.listeners[index] = Some(r.self)]
             now == Append(tried, [index |-> index, result |-> r.result])
         IN  CASE r.result = "panic" -> [self |-> kept, result |-> "panic", tried |-> now]
               [] r.result = "Ok" ->
                      [self |-> [kept EXCEPT !.index = Some(index)], result |-> "Ok",
                       tried |-> now]
               [] OTHER -> FailoverListener_bind(kept, index + 1, bound, now)

\* What the listener leaves as it is.
listen_frame ==
    <<router, crashed, request, selection, first_selection, in_flight, again, echoed,
      chain_vars, builder_vars, history, serve_vars, returned>>

\* Nothing is called on the listener after a panic, nor while accept runs.
Callable ==
    /\ listen.bind # "panic"
    /\ listen.accept \notin {"panic", "accepting"}

\* FailoverListener::add
FailoverAdd(addrs) ==
    /\ Callable
    /\ Len(failover.listeners) < MaxListeners
    /\ failover' = [failover EXCEPT
                        !.listeners = Append(@, Some(TcpListener_from_addrs(addrs)))]
    /\ UNCHANGED <<listen, tcp, listen_frame>>

\* FailoverListener::bind
FailoverBind(bound) ==
    /\ Callable
    /\ LET r == FailoverListener_bind(failover, 1, bound, <<>>) IN
           /\ failover' = r.self
           /\ listen' = [listen EXCEPT !.bind = r.result, !.tried = r.tried,
                                    !.accept = "none", !.serves = None]
    /\ UNCHANGED <<tcp, listen_frame>>

\* FailoverListener::accept up to the accept loop of the listener it serves:
\* without a recorded index it returns the error AddrNotAvailable; otherwise
\* the recorded listener is taken, and TcpListener::accept takes its server
\* and its bound listener and starts on the incoming connections.
FailoverAccept ==
    /\ Callable
    /\ IF failover.index = None
       THEN /\ listen' = [listen EXCEPT !.accept = "AddrNotAvailable"]
            /\ UNCHANGED <<failover, tcp>>
       ELSE LET index == CHOOSE i \in failover.index : TRUE
                slot == failover.listeners[index]
            IN  IF slot = None
                   \/ (\E l \in slot : l.server = None \/ l.listener = None)
                THEN /\ listen' = [listen EXCEPT !.accept = "panic"]
                     /\ failover' = [failover EXCEPT !.listeners[index] = None]
                     /\ UNCHANGED tcp
                ELSE LET l == CHOOSE x \in slot : TRUE IN
                     /\ failover' = [failover EXCEPT !.listeners[index] = None]
                     /\ listen' = [listen EXCEPT !.accept = "accepting",
                                                 !.serves = Some(index)]
                     /\ tcp' = [NoTcp EXCEPT !.status = "accepting",
                                             !.addr = CHOOSE a \in l.listener : TRUE]
    /\ UNCHANGED listen_frame

\* One turn of the loop of TcpListener::accept: a connection is handed to
\* handle_tcp; on a transient error the loop continues at once; on another
\* error it logs the error and sleeps for 500 ms.  The stream of incoming
\* connections does not end, and no arm of the loop leaves it.
AcceptTurn(item) ==
    /\ tcp.status = "accepting"
    /\ item = "stream" => tcp.handled < MaxStreams
    /\ tcp' = [tcp EXCEPT !.last = item,
                          !.handled = IF item = "stream" THEN @ + 1 ELSE @,
                          !.status = IF item = "error" THEN "sleeping" ELSE @]
    /\ UNCHANGED <<failover, listen, listen_frame>>

\* The sleep is over and the loop continues.
AcceptWake ==
    /\ tcp.status = "sleeping"
    /\ tcp' = [tcp EXCEPT !.status = "accepting"]
    /\ UNCHANGED <<failover, listen, listen_frame>>

NextListen ==
    \/ \E a \in Addrs : FailoverAdd(a)
    \/ \E bound \in [1..MaxListeners -> BOOLEAN] : FailoverBind(bound)
    \/ FailoverAccept
    \/ \E item \in Incoming : AcceptTurn(item)
    \/ AcceptWake

SpecListen == Init /\ [][NextListen]_vars

\* The listeners bind was called on, by their position.
Tried == [i \in 1..Len(listen.tried) |-> listen.tried[i].index]

\* C37: bind calls the listeners in the order they were added; it stops at the
\* first whose bind succeeds, records it and returns Ok, and no later listener
\* is bound; accept then runs the accept loop of exactly that listener.  When
\* the bind of every listener fails, bind returns AddrNotAvailable, and accept
\* returns AddrNotAvailable and nothing accepts.
C37_FirstSuccessful ==
    /\ listen.bind \in {"Ok", "AddrNotAvailable"} =>
           /\ \A i \in 1..Len(Tried) : Tried[i] = i
           /\ \A i \in 1..(Len(Tried) - 1) : listen.tried[i].result = "Err"
    /\ listen.bind = "Ok" =>
           /\ Tried # <<>>
           /\ listen.tried[Len(Tried)].result = "Ok"
           /\ failover.index = Some(Len(Tried))
           /\ \A i \in (Len(Tried) + 1)..Len(failover.listeners) :
                  \A l \in failover.listeners[i] : l.server = None /\ l.listener = None
    /\ listen.bind = "AddrNotAvailable" =>
           /\ \A i \in 1..Len(Tried) : listen.tried[i].result = "Err"
           /\ failover.index = None
           /\ \A i \in 1..Len(failover.listeners) :
                  \A l \in failover.listeners[i] : l.listener = None
    /\ listen.accept = "accepting" =>
           /\ listen.bind = "Ok"
           /\ listen.serves = failover.index
           /\ failover.listeners[Len(Tried)] = None
           /\ tcp.status # "idle"
    /\ listen.accept = "AddrNotAvailable" => (failover.index = None /\ tcp = NoTcp)
    /\ (listen.accept # "none" /\ failover.index = None) =>
           listen.accept = "AddrNotAvailable"
    /\ listen.accept # "panic"

\* The first listener failed to bind, the second was bound and accepts, and
\* the third was not called.
C37_Witness ==
    /\ Len(failover.listeners) = 3
    /\ listen.bind = "Ok"
    /\ Tried = <<1, 2>>
    /\ listen.accept = "accepting"
    /\ listen.serves = Some(2)

\* Every listener failed to bind and accept returned AddrNotAvailable.
C37_NoneWitness ==
    /\ Len(failover.listeners) = 2
    /\ listen.bind = "AddrNotAvailable"
    /\ Len(Tried) = 2
    /\ listen.accept = "AddrNotAvailable"

\* C38: in the accept loop of the TCP listener a transient error of accept is
\* retried and the listener goes on accepting, and a fatal error of accept
\* is returned by accept and stops the listener.
C38_Original ==
    /\ tcp.last = "transient" =>
           (tcp.status \in {"accepting", "sleeping"} /\ listen.accept = "accepting")
    /\ tcp.last = "error" => (tcp.status = "stopped" /\ listen.accept = "Err")

\* What the code does: accept does not return on any error; after a transient
\* error the loop accepts again at once, after another error it sleeps and
\* then accepts again.
C38_EveryErrorRetried ==
    tcp.status # "idle" =>
        /\ listen.accept = "accepting"
        /\ tcp.status \in {"accepting", "sleeping"}
        /\ tcp.status = "sleeping" => tcp.last = "error"

\* The loop sleeps after an error that is not transient.
C38_SleepingWitness ==
    /\ tcp.status = "sleeping"
    /\ tcp.last = "error"
    /\ listen.accept = "accepting"

----------------------------------------------------------------------------
(* HEAD requests to paths that other methods handle *)

\* The methods besides HEAD and GET that have a route matching the path.
OtherThanHeadAndGet ==
    {k \in (DOMAIN router.method_map) \ {"HEAD", "GET"} : Hits(TableOf(k)) # {}}

\* C39: a HEAD request to a path that no route of HEAD, of GET or of all
\* methods matches, and that a route of another method matches, is resolved to
\* the router's 405 endpoint and not to its 404 endpoint.
C39_HeadToOtherMethodsIs405 ==
    (/\ in_flight > 0
     /\ request.method = "HEAD"
     /\ Hits(TableOf("HEAD")) = {}
     /\ Hits(TableOf("GET")) = {}
     /\ Hits(router.all_method_router) = {}
     /\ OtherThanHeadAndGet # {})
        => /\ selection.endpoint = method_not_allowed
           /\ selection.endpoint # not_found_endpoint
           /\ Status(selection.endpoint) = 405
           /\ selection.params = EmptyCaptures

\* Only POST has routes, one of them matches the path of a HEAD request, and
\* the request is resolved to 405.
C39_Witness ==
    /\ in_flight > 0
    /\ request.method = "HEAD"
    /\ DOMAIN router.method_map = {"POST"}
    /\ router.all_method_router = {}
    /\ OtherThanHeadAndGet = {"POST"}
    /\ selection.endpoint = method_not_allowed

----------------------------------------------------------------------------
(* A miss inside a nested server *)

\* The nested server has no route for the stripped path and the method.
InnerMisses ==
    InnerSelection.endpoint.kind \in {"not_found_endpoint", "method_not_allowed"}

\* The nested server has resolved the request and added its captures.
InnerRouted == Len(context.params) = 2

\* The endpoints the dispatch has called, in the order of the calls.
RECURSIVE CalledOf(_)
CalledOf(t) ==
    IF t = <<>> THEN <<>>
    ELSE (IF Head(t).ev = "call" THEN <<Head(t).ep>> ELSE <<>>) \o CalledOf(Tail(t))

\* C40: once the outer router has selected the mount of a nested server, the
\* only calls of the dispatch are of the mount, of the nested server and of
\* what the nested server selects, so no other route of the outer server is
\* tried; when the nested server has no route for the request, the response
\* is the 404 or 405 of the nested server's router.
C40_NoFallback ==
    (in_flight = 1 /\ SelectsNest) =>
        /\ Len(CalledOf(trace)) <= 1
        /\ \A i \in 1..Len(CalledOf(trace)) :
               CalledOf(trace)[i] = Unwrapped(InnerSelection.endpoint)
        /\ \A k \in 1..Len(calls) :
               calls[k].op = "call" =>
                   \/ calls[k].endpoint = selection.endpoint
                   \/ calls[k].endpoint = Unwrapped(selection.endpoint)
                   \/ calls[k].endpoint = Inner
                   \/ calls[k].endpoint = InnerSelection.endpoint
                   \/ calls[k].endpoint = Unwrapped(InnerSelection.endpoint)
        /\ (Dispatched /\ InnerRouted /\ InnerMisses /\ Passes(config.inner_global)) =>
               /\ response.outcome = "response"
               /\ response.ep = InnerSelection.endpoint
               /\ response.status = Status(InnerSelection.endpoint)
               /\ CalledOf(trace) = <<InnerSelection.endpoint>>

\* POST /a/b with the outer route GET /a/b beside the server nested at /a,
\* whose route /b is for GET: the nested server answered 405.
C40_Witness ==
    /\ Dispatched
    /\ config.overlap = PathAB
    /\ request = [method |-> "POST", path |-> PathAB]
    /\ SelectsNest
    /\ InnerRouted
    /\ response.ep = method_not_allowed
    /\ response.status = 405

\* GET /a/b/a: the nested server answered 404.
C40_Witness404 ==
    /\ Dispatched
    /\ request = [method |-> "GET", path |-> <<"/", "a", "/", "b", "/", "a">>]
    /\ SelectsNest
    /\ InnerRouted
    /\ response.ep = not_found_endpoint
    /\ response.status = 404

\* In envoy_http the call of the nested server panics, or the mount returns an
\* error, before the nested server has resolved the request; no handler is
\* called then either.
C40_InEnvoyHttp ==
    (build = "envoy_http" /\ in_flight = 1 /\ SelectsNest) =>
        /\ ~InnerRouted
        /\ CalledOf(trace) = <<>>
        /\ (Dispatched /\ Passes(config.global \o config.route))
               => response.outcome \in {"panic", "error"}

====
